---- MODULE Spec2Model ----
(***************************************************************************)
(* Model of the Iterated Prisoner's Dilemma simulator                      *)
(* (advanced_ipd_gui_v6.py): the strategy functions, the Game class, the   *)
(* statistics aggregator update_player_stats and the tournament            *)
(* orchestrator IPDSimulatorV6.run_tournament (Round Robin, Elimination,   *)
(* Group Stage + Knockout).                                                *)
(*                                                                         *)
(* run_tournament is cut into steps at its QApplication.processEvents()    *)
(* calls: one step per match, one step per bracket round set-up.           *)
(* A probability p is kept as the slider integer (p = value / 10000); the  *)
(* test random.random() < p can come out TRUE only when p > 0.             *)
(***************************************************************************)
EXTENDS Integers, Sequences, FiniteSets, TLC

(***************************************************************************)
(* Bounds of the model                                                     *)
(***************************************************************************)
\* the value of the "Rounds/Game" spin box
RoundsPerGame == 2
\* largest value of the "# Groups" spin box explored
MaxGroups == 2
\* largest value of the "Qualifiers/Group" spin box explored
MaxQualifiers == 3
\* number of random draws of one tournament that may come out TRUE
MaxDraws == 1
\* the noise and forgiveness sliders are above 0 only when at most this many
\* participants are checked
MaxNoisy == 2
\* largest value of the "Rounds" spin box of the single game tab explored
MaxSingleRounds == 2
\* number of single games logged
MaxGames == 1
\* number of rounds played in one sandbox game
MaxSandboxRounds == 1001
\* number of sandbox rounds in which a manual player moves
MaxManualRounds == 2
\* longest history a custom strategy function is called with
MaxHistory == 2
\* number of rounds of a Game driven directly through its methods
MaxEngineRounds == 3

(***************************************************************************)
(* Constants of the program                                                *)
(***************************************************************************)
COOPERATE == "C"
DEFECT == "D"
\* payoffs Reward, Sucker, Temptation, Punishment
R == 3
S == 0
T == 5
P == 1
MAX_NOISE_FORGIVENESS == 20

\* mutant of PAYOFFS: the temptation to defect pays 6
PAYOFFS_temptation_six(m1, m2) ==
    CASE m1 = "C" /\ m2 = "C" -> <<3, 3>>
      [] m1 = "C" /\ m2 = "D" -> <<0, 6>>
      [] m1 = "D" /\ m2 = "C" -> <<6, 0>>
      [] m1 = "D" /\ m2 = "D" -> <<1, 1>>

PAYOFFS(m1, m2) ==
    CASE m1 = "C" /\ m2 = "C" -> <<3, 3>>
      [] m1 = "C" /\ m2 = "D" -> <<0, 5>>
      [] m1 = "D" /\ m2 = "C" -> <<5, 0>>
      [] m1 = "D" /\ m2 = "D" -> <<1, 1>>

\* slider_max = MAX_NOISE_FORGIVENESS * 100
slider_max == MAX_NOISE_FORGIVENESS * 100

\* the probability 1.0 in the unit of the sliders (value / 10000.0)
One == 10000

DEFAULT_ROUNDS == 100
MAX_ROUNDS == 1000

(***************************************************************************)
(* State                                                                   *)
(***************************************************************************)
VARIABLES
    pc,                  \* where run_tournament stands (a processEvents call)
    message,             \* the last message box shown
    \* the widgets of the tournament and settings tabs
    checked, tourn_type, rounds_spin, groups_spin, qualifiers_spin,
    seeding_checked, global_noise, global_forgiveness,
    \* locals of run_tournament
    participants, num_groups, num_qualifiers, use_seeding,
    tournament_scores, games_played, group_stage_scores, group_stage_games,
    all_matches_data, matchups, match_i,
    current_round_participants, next_round, round_num, full_ranking_data,
    groups, g_idx, qualifiers,
    final_standings, winner_id,
    \* global statistics
    PLAYER_STATS,
    \* random draws that came out TRUE
    draws,
    \* the custom strategies of the registry: id -> rules
    CUSTOM_STRATEGIES,
    \* the single game tab
    sg_p1_combo, sg_p2_combo, sg_rounds_spin,
    current_game, single_game_round_counter, single_game_max_rounds,
    single_game_timer,   \* isActive()
    excel_log,           \* the single games written by excel_logger.log_match
    \* the sandbox tab
    sandbox_p1_combo, sandbox_p2_combo, sandbox_game, sandbox_p1_move, sandbox_p2_move,
    \* one call of a custom strategy function: its arguments and its result
    cs_call, cs_move,
    \* a Game driven directly through its methods: the arguments of the
    \* constructor and the object
    engine_args, engine_game

widgets == <<checked, tourn_type, rounds_spin, groups_spin, qualifiers_spin,
             seeding_checked, global_noise, global_forgiveness>>
setup == <<participants, num_groups, num_qualifiers, use_seeding>>
totals == <<tournament_scores, games_played>>
group_totals == <<group_stage_scores, group_stage_games>>
bracket == <<current_round_participants, next_round, round_num, full_ranking_data>>
group_vars == <<groups, g_idx, qualifiers>>
result == <<final_standings, winner_id>>

single_vars == <<sg_p1_combo, sg_p2_combo, sg_rounds_spin, current_game,
                 single_game_round_counter, single_game_max_rounds, single_game_timer,
                 excel_log>>
sandbox_vars == <<sandbox_p1_combo, sandbox_p2_combo, sandbox_game, sandbox_p1_move,
                  sandbox_p2_move>>
call_vars == <<cs_call, cs_move, engine_args, engine_game>>
\* everything outside the tournament tab
tabs == <<CUSTOM_STRATEGIES, single_vars, sandbox_vars, call_vars>>
\* everything of the tournament tab
tournament_vars == <<pc, message, widgets, setup, totals, group_totals, all_matches_data,
                     matchups, match_i, bracket, group_vars, result>>

vars == <<tournament_vars, PLAYER_STATS, draws, tabs>>

(***************************************************************************)
(* The strategy registry                                                   *)
(***************************************************************************)
\* The built-in strategies explored, and the rank of each display name in
\* the (string) order of the names:
\*   "Always Cooperate" < "Always Defect" < "Grudger"
\*     < "Pavlov (Win-Stay, Lose-Shift)" < "Tit for Tat (TFT)" < "Zed"
BUILT_IN_STRATEGIES_META == {"cooperate", "defect", "grudger", "pavlov", "tit_for_tat"}

\* the ids of the custom strategies explored (a custom strategy named "Zed")
CustomIds == {"custom_zed"}

\* the global registry: the built-ins and the custom strategies loaded or defined
STRATEGIES == BUILT_IN_STRATEGIES_META \cup DOMAIN CUSTOM_STRATEGIES

StrategyName(id) ==
    CASE id = "cooperate"   -> 1
      [] id = "defect"      -> 2
      [] id = "grudger"     -> 3
      [] id = "pavlov"      -> 4
      [] id = "tit_for_tat" -> 5
      [] id = "custom_zed"  -> 6
      [] OTHER              -> 0

(***************************************************************************)
(* Sequence helpers (Python list operations)                               *)
(***************************************************************************)
Last(s) == s[Len(s)]

Contains(s, x) == \E i \in 1..Len(s) : s[i] = x

Range(s) == {s[i] : i \in 1..Len(s)}

\* Python's order on tuples of integers (the sort keys)
RECURSIVE KeyLess(_, _)
KeyLess(a, b) ==
    IF a = <<>> \/ b = <<>> THEN a = <<>> /\ b # <<>>
    ELSE IF a[1] # b[1] THEN a[1] < b[1]
    ELSE KeyLess(Tail(a), Tail(b))

\* sorted(items, key=..., reverse=...) and list.sort(key=...): items are
\* [key |-> tuple of integers, val |-> element]; the sort is stable, also
\* with reverse=True (equal keys keep their original order).
RECURSIVE sorted(_, _)
sorted(items, reverse) ==
    IF items = <<>> THEN <<>>
    ELSE LET init == sorted(SubSeq(items, 1, Len(items) - 1), reverse)
             x    == items[Len(items)]
             Before(e) == IF reverse THEN KeyLess(e.key, x.key)
                                     ELSE KeyLess(x.key, e.key)
             \* x goes in front of the first element it strictly precedes
             pos  == IF \E i \in 1..Len(init) : Before(init[i])
                     THEN CHOOSE i \in 1..Len(init) :
                              /\ Before(init[i])
                              /\ \A j \in 1..(i - 1) : ~Before(init[j])
                     ELSE Len(init) + 1
         IN  SubSeq(init, 1, pos - 1) \o <<x>> \o SubSeq(init, pos, Len(init))

\* the elements of a sorted list of keyed items
Vals(items) == [i \in 1..Len(items) |-> items[i].val]

\* the outcomes of the test random.random() < p, random() being in [0.0, 1.0)
Draw(p) == IF p <= 0 THEN {FALSE} ELSE IF p >= One THEN {TRUE} ELSE {TRUE, FALSE}

\* a decision (or a flip) together with the number of draws that came out TRUE
Mv(m, c) == [m |-> m, c |-> c]

(***************************************************************************)
(* Built-in strategy functions: the set of moves each may return           *)
(***************************************************************************)
always_cooperate(my_history, opponent_history, round_number, forgiveness_prob) ==
    {Mv(COOPERATE, 0)}

always_defect(my_history, opponent_history, round_number, forgiveness_prob) ==
    {Mv(DEFECT, 0)}

\* mutant of tit_for_tat: the first move is Defect
tit_for_tat_suspicious(my_history, opponent_history, round_number, forgiveness_prob) ==
    IF opponent_history = <<>> THEN {Mv(DEFECT, 0)}
    ELSE IF Last(opponent_history) = DEFECT
         THEN {IF d THEN Mv(COOPERATE, 1) ELSE Mv(Last(opponent_history), 0) :
                  d \in Draw(forgiveness_prob)}
         ELSE {Mv(Last(opponent_history), 0)}

tit_for_tat(my_history, opponent_history, round_number, forgiveness_prob) ==
    IF opponent_history = <<>> THEN {Mv(COOPERATE, 0)}
    ELSE IF Last(opponent_history) = DEFECT
         THEN {IF d THEN Mv(COOPERATE, 1) ELSE Mv(Last(opponent_history), 0) :
                  d \in Draw(forgiveness_prob)}
         ELSE {Mv(Last(opponent_history), 0)}

\* mutant of grudger: only the opponent's last move is looked at
grudger_forgets(my_history, opponent_history, round_number, forgiveness_prob) ==
    IF opponent_history # <<>> /\ Last(opponent_history) = DEFECT
    THEN {IF d THEN Mv(COOPERATE, 1) ELSE Mv(DEFECT, 0) : d \in Draw(forgiveness_prob)}
    ELSE {Mv(COOPERATE, 0)}

grudger(my_history, opponent_history, round_number, forgiveness_prob) ==
    IF Contains(opponent_history, DEFECT)
    THEN IF Last(opponent_history) = DEFECT
         THEN {IF d THEN Mv(COOPERATE, 1) ELSE Mv(DEFECT, 0) :
                  d \in Draw(forgiveness_prob)}
         ELSE {Mv(DEFECT, 0)}
    ELSE {Mv(COOPERATE, 0)}

pavlov(my_history, opponent_history, round_number, forgiveness_prob) ==
    IF round_number = 0 THEN {Mv(COOPERATE, 0)}
    ELSE LET last_my_move  == Last(my_history)
             last_opp_move == Last(opponent_history)
             last_payoff   == PAYOFFS(last_my_move, last_opp_move)[1]
         IN  IF last_payoff \in {R, P}
             THEN IF last_payoff = P
                  THEN {IF d THEN Mv(COOPERATE, 1) ELSE Mv(last_my_move, 0) :
                           d \in Draw(forgiveness_prob)}
                  ELSE {Mv(last_my_move, 0)}
             ELSE {Mv(IF last_my_move = COOPERATE THEN DEFECT ELSE COOPERATE, 0)}

(***************************************************************************)
(* Custom strategies: a rule set is a function on a subset of the keys     *)
(* "default", "opp_last_move", "opp_coop_lt", "round_gt"                   *)
(***************************************************************************)
\* rules.get('default', COOPERATE)
default_move(rules) == IF "default" \in DOMAIN rules THEN rules["default"] ELSE COOPERATE

\* opponent_history.count(m)
count(h, m) == Cardinality({i \in 1..Len(h) : h[i] = m})

\* custom_strategy_logic up to the forgiveness override: the move and the
\* flag rule_triggered_defection.  The three rules are the branches of one
\* if / elif / elif: the first rule that is present (and, for the first two,
\* has a history to look at) is the only one evaluated.
custom_rule_move(rules, opponent_history, round_number) ==
    LET by_default == [move |-> default_move(rules), rule_triggered_defection |-> FALSE]
        by_rule(m) == [move |-> m, rule_triggered_defection |-> m = DEFECT]
    IN  IF "opp_last_move" \in DOMAIN rules /\ opponent_history # <<>>
        THEN LET last_opp_move == Last(opponent_history)
             IN  IF last_opp_move = COOPERATE /\ "C" \in DOMAIN rules["opp_last_move"]
                 THEN by_rule(rules["opp_last_move"]["C"])
                 ELSE IF last_opp_move = DEFECT /\ "D" \in DOMAIN rules["opp_last_move"]
                 THEN by_rule(rules["opp_last_move"]["D"])
                 ELSE by_default
        ELSE IF "opp_coop_lt" \in DOMAIN rules /\ opponent_history # <<>>
        THEN \* coop_rate = (coop_count / total_moves) * 100 < value
             IF count(opponent_history, COOPERATE) * 100
                   < rules["opp_coop_lt"].value * Len(opponent_history)
             THEN by_rule(rules["opp_coop_lt"].move)
             ELSE by_default
        ELSE IF "round_gt" \in DOMAIN rules /\ round_number > rules["round_gt"].value
        THEN by_rule(rules["round_gt"].move)
        ELSE by_default

\* mutant of custom_strategy_logic: rule_triggered_defection is not looked at
custom_strategy_logic_forgives_default(rules, my_history, opponent_history, round_number, forgiveness_prob) ==
    LET r == custom_rule_move(rules, opponent_history, round_number)
    IN  IF r.move = DEFECT
        THEN {IF d THEN Mv(COOPERATE, 1) ELSE Mv(r.move, 0) : d \in Draw(forgiveness_prob)}
        ELSE {Mv(r.move, 0)}

\* custom_strategy_logic: the moves it may return
custom_strategy_logic(rules, my_history, opponent_history, round_number, forgiveness_prob) ==
    LET r == custom_rule_move(rules, opponent_history, round_number)
    IN  IF r.move = DEFECT /\ r.rule_triggered_defection
        THEN {IF d THEN Mv(COOPERATE, 1) ELSE Mv(r.move, 0) : d \in Draw(forgiveness_prob)}
        ELSE {Mv(r.move, 0)}

\* create_custom_strategy_function: the closure over the rules; it is built
\* for every rule set
create_custom_strategy_function(rules) == [rules |-> rules]

(***************************************************************************)
(* Function objects: [builtin |-> name] or the closure [rules |-> rules]   *)
(***************************************************************************)
\* the built-in function of the given name; "lambda" is lambda *args: COOPERATE
StrategyFunc(id, my_history, opponent_history, round_number, forgiveness_prob) ==
    CASE id = "cooperate"   -> always_cooperate(my_history, opponent_history, round_number, forgiveness_prob)
      [] id = "defect"      -> always_defect(my_history, opponent_history, round_number, forgiveness_prob)
      [] id = "tit_for_tat" -> tit_for_tat(my_history, opponent_history, round_number, forgiveness_prob)
      [] id = "grudger"     -> grudger(my_history, opponent_history, round_number, forgiveness_prob)
      [] id = "pavlov"      -> pavlov(my_history, opponent_history, round_number, forgiveness_prob)
      [] OTHER              -> {Mv(COOPERATE, 0)}

(***************************************************************************)
(* class Game                                                              *)
(***************************************************************************)
\* mutant of strategy_func: a missing strategy plays Always Defect
strategy_func_missing_defects(id) ==
    IF id \in BUILT_IN_STRATEGIES_META THEN [builtin |-> id]
    ELSE IF id \in DOMAIN CUSTOM_STRATEGIES
         THEN create_custom_strategy_function(CUSTOM_STRATEGIES[id])
         ELSE [builtin |-> "defect"]

\* STRATEGIES.get(id, {}).get('func', lambda *args: COOPERATE)
strategy_func(id) ==
    IF id \in BUILT_IN_STRATEGIES_META THEN [builtin |-> id]
    ELSE IF id \in DOMAIN CUSTOM_STRATEGIES
         THEN create_custom_strategy_function(CUSTOM_STRATEGIES[id])
         ELSE [builtin |-> "lambda"]

\* a call of a function object
Call(func, my_history, opponent_history, round_number, forgiveness_prob) ==
    IF "rules" \in DOMAIN func
    THEN custom_strategy_logic(func.rules, my_history, opponent_history, round_number, forgiveness_prob)
    ELSE StrategyFunc(func.builtin, my_history, opponent_history, round_number, forgiveness_prob)

\* Game.__init__
Game(strategy1_id, strategy2_id, num_rounds, noise_prob, forgiveness_prob) ==
    [strategy1_id |-> strategy1_id, strategy2_id |-> strategy2_id,
     num_rounds |-> num_rounds, noise_prob |-> noise_prob,
     forgiveness_prob |-> forgiveness_prob,
     history1 |-> <<>>, history2 |-> <<>>, score1 |-> 0, score2 |-> 0,
     strategy1_func |-> strategy_func(strategy1_id),
     strategy2_func |-> strategy_func(strategy2_id)]

\* the noise applied to one intended move
Noisy(intended, noise_prob) ==
    {IF d THEN Mv(IF intended = DEFECT THEN COOPERATE ELSE DEFECT, 1)
          ELSE Mv(intended, 0) : d \in Draw(noise_prob)}

\* mutant of play_round: the payoffs are looked up for the intended moves
play_round_pays_intended(g, round_number) ==
    UNION { UNION { UNION { {
        LET payoff == PAYOFFS(i1.m, i2.m)
        IN  [g |-> [g EXCEPT !.history1 = Append(@, a1.m),
                             !.history2 = Append(@, a2.m),
                             !.score1 = @ + payoff[1],
                             !.score2 = @ + payoff[2]],
             c |-> i1.c + i2.c + a1.c + a2.c]
        : a2 \in Noisy(i2.m, g.noise_prob) }
        : a1 \in Noisy(i1.m, g.noise_prob) }
        : i2 \in Call(g.strategy2_func, g.history2, g.history1, round_number, g.forgiveness_prob) }
        : i1 \in Call(g.strategy1_func, g.history1, g.history2, round_number, g.forgiveness_prob) }

\* Game.play_round: the games it may leave, each with the number of draws
\* that came out TRUE in the round
play_round(g, round_number) ==
    UNION { UNION { UNION { {
        LET payoff == PAYOFFS(a1.m, a2.m)
        IN  [g |-> [g EXCEPT !.history1 = Append(@, a1.m),
                             !.history2 = Append(@, a2.m),
                             !.score1 = @ + payoff[1],
                             !.score2 = @ + payoff[2]],
             c |-> i1.c + i2.c + a1.c + a2.c]
        : a2 \in Noisy(i2.m, g.noise_prob) }
        : a1 \in Noisy(i1.m, g.noise_prob) }
        : i2 \in Call(g.strategy2_func, g.history2, g.history1, round_number, g.forgiveness_prob) }
        : i1 \in Call(g.strategy1_func, g.history1, g.history2, round_number, g.forgiveness_prob) }

\* Game.run_game: play_round(r) for r in range(num_rounds); `budget` is the
\* number of TRUE draws still allowed
RECURSIVE RunRounds(_, _, _)
RunRounds(gs, r, budget) ==
    IF \A x \in gs : r >= x.g.num_rounds THEN gs
    ELSE RunRounds({y \in UNION {{[g |-> n.g, c |-> x.c + n.c] : n \in play_round(x.g, r)} : x \in gs} :
                       y.c <= budget}, r + 1, budget)

run_game(g, budget) == RunRounds({[g |-> g, c |-> 0]}, 0, budget)

(***************************************************************************)
(* Python helpers used by run_tournament                                   *)
(***************************************************************************)
\* d[k] += v on a defaultdict(int): a dict keeps its keys in insertion order
DictAdd(d, k, v) ==
    IF \E i \in 1..Len(d) : d[i].id = k
    THEN [i \in 1..Len(d) |-> IF d[i].id = k THEN [d[i] EXCEPT !.score = @ + v] ELSE d[i]]
    ELSE Append(d, [id |-> k, score |-> v])

\* d.get(k, 0)
DictGet(d, k) ==
    IF \E i \in 1..Len(d) : d[i].id = k
    THEN (CHOOSE e \in Range(d) : e.id = k).score
    ELSE 0

\* mutant of combinations: neighbours only
combinations_neighbours(seq) == [i \in 1..(Len(seq) - 1) |-> <<seq[i], seq[i + 1]>>]

\* list(itertools.combinations(seq, 2))
RECURSIVE combinations(_)
combinations(seq) ==
    IF Len(seq) < 2 THEN <<>>
    ELSE [i \in 1..(Len(seq) - 1) |-> <<seq[1], seq[i + 1]>>] \o combinations(Tail(seq))

\* mutant of zip_pairs: overlapping pairs
zip_pairs_overlapping(seq) == [i \in 1..(Len(seq) - 1) |-> <<seq[i], seq[i + 1]>>]

\* list(zip(seq[::2], seq[1::2]))
zip_pairs(seq) == [i \in 1..(Len(seq) \div 2) |-> <<seq[2 * i - 1], seq[2 * i]>>]

\* the orders random.shuffle can leave a list in
shuffle(seq) ==
    {[i \in 1..Len(seq) |-> seq[f[i]]] :
        f \in {h \in [1..Len(seq) -> 1..Len(seq)] : \A a, b \in 1..Len(seq) : h[a] = h[b] => a = b}}

\* the strategies in the order of the participants list widget:
\* sorted(STRATEGIES.items(), key=lambda item: item[1]['name'])
RECURSIVE sorted_strategies(_)
sorted_strategies(ids) ==
    IF ids = {} THEN <<>>
    ELSE LET first == CHOOSE x \in ids : \A y \in ids : StrategyName(x) <= StrategyName(y)
         IN  <<first>> \o sorted_strategies(ids \ {first})

\* participants.sort(key=lambda p_id: STRATEGIES.get(p_id, {}).get('name', 'zzzz'))
sort_by_name(seq) ==
    Vals(sorted([i \in 1..Len(seq) |-> [key |-> <<StrategyName(seq[i])>>, val |-> seq[i]]], FALSE))

\* mutant of match_winner: player two wins ties
match_winner_strict(p1_id, p2_id, s1, s2) == IF s1 > s2 THEN p1_id ELSE p2_id

\* winner = p1_id if s1 >= s2 else p2_id  (P1 wins ties)
match_winner(p1_id, p2_id, s1, s2) == IF s1 >= s2 THEN p1_id ELSE p2_id

(***************************************************************************)
(* Statistics aggregator                                                   *)
(***************************************************************************)
\* mutant of NewStat: the creation of a record counts as a game
NewStat_counts_creation == [wins |-> 0, losses |-> 0, draws |-> 0, total_score |-> 0, games_played |-> 1]

\* the record update_player_stats creates for a strategy without one
NewStat == [wins |-> 0, losses |-> 0, draws |-> 0, total_score |-> 0, games_played |-> 0]

\* mutant of update_one: a tie is counted as a win
update_one_tie_is_win(stats, pid, score, opp_score) ==
    IF pid \in {"manual_p1", "manual_p2"} THEN stats
    ELSE IF pid \notin STRATEGIES THEN stats
    ELSE LET old == IF pid \in DOMAIN stats THEN stats[pid] ELSE NewStat
             new == [old EXCEPT !.games_played = @ + 1,
                                !.total_score = @ + score,
                                !.wins = IF score >= opp_score THEN @ + 1 ELSE @,
                                !.losses = IF opp_score > score THEN @ + 1 ELSE @]
         IN  [k \in (DOMAIN stats) \cup {pid} |-> IF k = pid THEN new ELSE stats[k]]

\* one iteration of the loop of update_player_stats
update_one(stats, pid, score, opp_score) ==
    IF pid \in {"manual_p1", "manual_p2"} THEN stats
    ELSE IF pid \notin STRATEGIES THEN stats
    ELSE LET old == IF pid \in DOMAIN stats THEN stats[pid] ELSE NewStat
             new == [old EXCEPT !.games_played = @ + 1,
                                !.total_score = @ + score,
                                !.wins = IF score > opp_score THEN @ + 1 ELSE @,
                                !.losses = IF opp_score > score THEN @ + 1 ELSE @,
                                !.draws = IF score = opp_score THEN @ + 1 ELSE @]
         IN  [k \in (DOMAIN stats) \cup {pid} |-> IF k = pid THEN new ELSE stats[k]]

\* mutant of update_player_stats: a match with an unknown player is dropped whole
update_player_stats_known_pairs_only(stats, p1_id, p2_id, score1, score2) ==
    IF p1_id \notin STRATEGIES \/ p2_id \notin STRATEGIES THEN stats
    ELSE update_one(update_one(stats, p1_id, score1, score2), p2_id, score2, score1)

\* IPDSimulatorV6.update_player_stats
update_player_stats(stats, p1_id, p2_id, score1, score2) ==
    update_one(update_one(stats, p1_id, score1, score2), p2_id, score2, score1)

RoundRobin == "Round Robin"
Elimination == "Elimination"
GroupKnockout == "Group Stage + Knockout"

\* float('inf'), the elimination round of a participant not yet eliminated
Infinity == 1000000
\* winner_id = None
None == "None"

Zero == [p \in BUILT_IN_STRATEGIES_META \cup CustomIds |-> 0]

\* None where the other values are records (a Game, the arguments of a call)
Nothing == [none |-> TRUE]

\* no custom strategy in the registry
NoCustom == [id \in {} |-> {}]

\* the single game tab after construction
SingleGameTabInit ==
    /\ sg_p1_combo = "cooperate" /\ sg_p2_combo = "defect"
    /\ sg_rounds_spin = DEFAULT_ROUNDS
    /\ current_game = Nothing
    /\ single_game_round_counter = 0
    /\ single_game_max_rounds = DEFAULT_ROUNDS
    /\ single_game_timer = FALSE
    /\ excel_log = <<>>

\* the sandbox tab after construction
SandboxTabInit ==
    /\ sandbox_p1_combo = "manual" /\ sandbox_p2_combo = "manual"
    /\ sandbox_game = Nothing
    /\ sandbox_p1_move = None /\ sandbox_p2_move = None

\* the tournament tab with no tournament run yet; the spin boxes and the
\* seeding box as constructed (Rounds/Game at the value explored)
TournamentTabIdle ==
    /\ pc = "idle"
    /\ message = None
    /\ rounds_spin = RoundsPerGame
    /\ groups_spin = 2 /\ qualifiers_spin = 2 /\ seeding_checked = FALSE
    /\ participants = <<>> /\ num_groups = 1 /\ num_qualifiers = 1 /\ use_seeding = FALSE
    /\ tournament_scores = <<>> /\ games_played = Zero
    /\ group_stage_scores = <<>> /\ group_stage_games = Zero
    /\ all_matches_data = <<>> /\ matchups = <<>> /\ match_i = 1
    /\ current_round_participants = <<>> /\ next_round = <<>> /\ round_num = 1
    /\ full_ranking_data = <<>>
    /\ groups = <<>> /\ g_idx = 1 /\ qualifiers = <<>>
    /\ final_standings = <<>> /\ winner_id = None

\* no custom strategy function under test
NoEngine == engine_args = Nothing /\ engine_game = Nothing

\* no custom strategy function under test, no Game driven directly
NoCall == cs_call = Nothing /\ cs_move = Nothing /\ NoEngine

Init ==
    /\ CUSTOM_STRATEGIES = NoCustom
    /\ SingleGameTabInit /\ SandboxTabInit /\ NoCall
    /\ pc = "idle"
    /\ message = None
    /\ checked \in SUBSET STRATEGIES
    /\ tourn_type \in {RoundRobin, Elimination, GroupKnockout}
    /\ rounds_spin = RoundsPerGame
    \* the group widgets are hidden, at their initial value 2, unless the
    \* type is Group Stage + Knockout; the seeding box is hidden for Round Robin
    /\ groups_spin \in IF tourn_type = GroupKnockout THEN 1..MaxGroups ELSE {2}
    /\ qualifiers_spin \in IF tourn_type = GroupKnockout THEN 1..MaxQualifiers ELSE {2}
    /\ seeding_checked \in IF tourn_type = RoundRobin THEN {FALSE} ELSE BOOLEAN
    /\ global_noise \in IF Cardinality(checked) <= MaxNoisy THEN {0, slider_max} ELSE {0}
    /\ global_forgiveness \in IF Cardinality(checked) <= MaxNoisy THEN {0, slider_max} ELSE {0}
    /\ participants = <<>> /\ num_groups = 1 /\ num_qualifiers = 1 /\ use_seeding = FALSE
    /\ tournament_scores = <<>> /\ games_played = Zero
    /\ group_stage_scores = <<>> /\ group_stage_games = Zero
    /\ all_matches_data = <<>> /\ matchups = <<>> /\ match_i = 1
    /\ current_round_participants = <<>> /\ next_round = <<>> /\ round_num = 1
    /\ full_ranking_data = <<>>
    /\ groups = <<>> /\ g_idx = 1 /\ qualifiers = <<>>
    /\ final_standings = <<>> /\ winner_id = None
    /\ PLAYER_STATS = <<>>
    /\ draws = 0

\* get_selected_participants: the checked items, in list order
get_selected_participants == sorted_strategies(checked)

\* update_tournament_options: which widgets are visible
groups_visible == tourn_type = GroupKnockout
seeding_visible == tourn_type \in {Elimination, GroupKnockout}

\* the outcomes of one match: Game(...).run_game() within the draws left
play_match(p1_id, p2_id) ==
    run_game(Game(p1_id, p2_id, rounds_spin, global_noise, global_forgiveness), MaxDraws - draws)

\* the record appended to all_matches_data
match_data(sim_type, g) ==
    [sim_type |-> sim_type, p1_id |-> g.strategy1_id, p2_id |-> g.strategy2_id,
     score1 |-> g.score1, score2 |-> g.score2, hist1 |-> g.history1, hist2 |-> g.history2]

(***************************************************************************)
(* Ranking and bracket helpers of run_tournament                           *)
(***************************************************************************)
\* mutant of ranked_by_score: reverse=True forgotten
ranked_by_score_ascending(scores) ==
    Vals(sorted([i \in 1..Len(scores) |-> [key |-> <<scores[i].score>>, val |-> scores[i]]], FALSE))

\* ranked = sorted(tournament_scores.items(), key=lambda item: item[1], reverse=True)
ranked_by_score(scores) ==
    Vals(sorted([i \in 1..Len(scores) |-> [key |-> <<scores[i].score>>, val |-> scores[i]]], TRUE))

\* mutant of standings_of: the ranks are counted from 0
standings_of_zero_based(ranked, games) ==
    [i \in 1..Len(ranked) |->
        [rank |-> i - 1, id |-> ranked[i].id, score |-> ranked[i].score, games |-> games[ranked[i].id]]]

\* final_standings of Round Robin and Group Stage + Knockout
standings_of(ranked, games) ==
    [i \in 1..Len(ranked) |->
        [rank |-> i, id |-> ranked[i].id, score |-> ranked[i].score, games |-> games[ranked[i].id]]]

\* mutant of bye_of: the bye is given in even rounds too
bye_of_always(current) == <<current[1]>>

\* the bye of a bracket round: current_round_participants.pop(0) when odd
bye_of(current) == IF Len(current) % 2 # 0 THEN <<current[1]>> ELSE <<>>

\* mutant of after_bye: the last participant is removed, not the first
after_bye_drops_last(current) ==
    IF Len(current) % 2 # 0 THEN SubSeq(current, 1, Len(current) - 1) ELSE current

\* current_round_participants after the pop
after_bye(current) == IF Len(current) % 2 # 0 THEN Tail(current) ELSE current

\* mutant of elimination_ranked: the score is left out of the key
elimination_ranked_round_only(keys, data) ==
    Vals(sorted([i \in 1..Len(keys) |->
                    [key |-> <<0 - data[keys[i]].elim_round>>, val |-> keys[i]]], FALSE))

\* ranked_ids = sorted(full_ranking_data.keys(), key=(-elim_round, -score))
elimination_ranked(keys, data) ==
    Vals(sorted([i \in 1..Len(keys) |->
                    [key |-> <<0 - data[keys[i]].elim_round, 0 - data[keys[i]].score>>,
                     val |-> keys[i]]], FALSE))

\* final_standings of Elimination
elimination_standings(ranked_ids, data) ==
    [i \in 1..Len(ranked_ids) |->
        [rank |-> i, id |-> ranked_ids[i], score |-> data[ranked_ids[i]].score,
         games |-> data[ranked_ids[i]].games]]

\* mutant of partition_groups: the last of the shuffled list is left out
partition_groups_short(shuffled, n) ==
    [j \in 1..n |->
        [k \in 1..Cardinality({i \in 1..(Len(shuffled) - 1) : (i - 1) % n = j - 1}) |->
            shuffled[(k - 1) * n + j]]]

\* groups[i % num_groups].append(p_id) for i, p_id in enumerate(shuffled)
partition_groups(shuffled, n) ==
    [j \in 1..n |->
        [k \in 1..Cardinality({i \in 1..Len(shuffled) : (i - 1) % n = j - 1}) |->
            shuffled[(k - 1) * n + j]]]

\* group_ranked = sorted(group, key=(group_stage_scores.get(x, 0), name), reverse=True)
group_ranked(group, scores) ==
    Vals(sorted([i \in 1..Len(group) |->
                    [key |-> <<DictGet(scores, group[i]), StrategyName(group[i])>>,
                     val |-> group[i]]], TRUE))

\* mutant of group_qualifiers: the whole group goes through
group_qualifiers_all(ranked, n) == ranked

\* group_qualifiers = group_ranked[:num_qualifiers]
group_qualifiers(ranked, n) == SubSeq(ranked, 1, IF n < Len(ranked) THEN n ELSE Len(ranked))

\* the groups the loop passes without a match (empty or single member):
\* an empty group is skipped, a single member is ranked and may qualify
RECURSIVE skip_groups(_, _, _, _, _)
skip_groups(gs, gi, quals, scores, n) ==
    IF gi > Len(gs) \/ Len(gs[gi]) >= 2 THEN [g_idx |-> gi, qualifiers |-> quals]
    ELSE skip_groups(gs, gi + 1,
                     quals \o group_qualifiers(group_ranked(gs[gi], scores), n), scores, n)

\* mutant of group_standings: the scores of the whole tournament are ranked
group_standings_total(scores, games, parts) ==
    SelectSeq(standings_of(ranked_by_score(tournament_scores'), games_played'),
              LAMBDA e : Contains(parts, e.id))

\* final_standings of Group Stage + Knockout: group-stage scores only,
\* filtered to the original participants
group_standings(scores, games, parts) ==
    SelectSeq(standings_of(ranked_by_score(scores), games), LAMBDA e : Contains(parts, e.id))

(***************************************************************************)
(* run_tournament                                                          *)
(***************************************************************************)
\* The end of the group stage: with fewer than two qualifiers the tournament
\* ends, otherwise the qualifiers (sorted by name when seeding) form the
\* first knockout round.
EnterKnockout(quals, scores, games, parts, seeding) ==
    IF Len(quals) < 2
    THEN /\ qualifiers' = quals
         /\ winner_id' = IF quals # <<>> THEN quals[1] ELSE None
         /\ final_standings' = group_standings(scores, games, parts)
         /\ pc' = "done"
         /\ UNCHANGED <<current_round_participants, round_num>>
    ELSE LET seeded == IF seeding THEN sort_by_name(quals) ELSE quals
         IN  /\ qualifiers' = seeded
             /\ current_round_participants' = seeded
             /\ round_num' = 1
             /\ pc' = "ko_round"
             /\ UNCHANGED result

\* the noise and forgiveness sliders stay at 0 for more than MaxNoisy
\* checked participants
NoiseBounded(c) ==
    Cardinality(c) <= MaxNoisy \/ (global_noise = 0 /\ global_forgiveness = 0)

\* A click on the check box of one item of the participants list.
ToggleParticipant ==
    /\ pc = "idle"
    /\ UNCHANGED tabs
    /\ \E id \in STRATEGIES :
          LET c == IF id \in checked THEN checked \ {id} ELSE checked \cup {id}
          IN  /\ NoiseBounded(c)
              /\ checked' = c
    /\ UNCHANGED <<pc, message, tourn_type, rounds_spin, groups_spin, qualifiers_spin,
                   seeding_checked, global_noise, global_forgiveness, setup, totals,
                   group_totals, all_matches_data, matchups, match_i, bracket,
                   group_vars, result, PLAYER_STATS, draws>>

\* The "Select All" button.
select_all_participants ==
    /\ pc = "idle"
    /\ UNCHANGED tabs
    /\ NoiseBounded(STRATEGIES)
    /\ checked' = STRATEGIES
    /\ UNCHANGED <<pc, message, tourn_type, rounds_spin, groups_spin, qualifiers_spin,
                   seeding_checked, global_noise, global_forgiveness, setup, totals,
                   group_totals, all_matches_data, matchups, match_i, bracket,
                   group_vars, result, PLAYER_STATS, draws>>

\* The "Select None" button.
select_none_participants ==
    /\ pc = "idle"
    /\ UNCHANGED tabs
    /\ checked' = {}
    /\ UNCHANGED <<pc, message, tourn_type, rounds_spin, groups_spin, qualifiers_spin,
                   seeding_checked, global_noise, global_forgiveness, setup, totals,
                   group_totals, all_matches_data, matchups, match_i, bracket,
                   group_vars, result, PLAYER_STATS, draws>>

\* A new value in the "# Groups" spin box (shown for Group Stage + Knockout).
SetGroups ==
    /\ pc = "idle" /\ groups_visible
    /\ UNCHANGED tabs
    /\ \E n \in 1..MaxGroups : groups_spin' = n
    /\ UNCHANGED <<pc, message, checked, tourn_type, rounds_spin, qualifiers_spin,
                   seeding_checked, global_noise, global_forgiveness, setup, totals,
                   group_totals, all_matches_data, matchups, match_i, bracket,
                   group_vars, result, PLAYER_STATS, draws>>

\* A new value in the "Qualifiers/Group" spin box.
SetQualifiers ==
    /\ pc = "idle" /\ groups_visible
    /\ UNCHANGED tabs
    /\ \E n \in 1..MaxQualifiers : qualifiers_spin' = n
    /\ UNCHANGED <<pc, message, checked, tourn_type, rounds_spin, groups_spin,
                   seeding_checked, global_noise, global_forgiveness, setup, totals,
                   group_totals, all_matches_data, matchups, match_i, bracket,
                   group_vars, result, PLAYER_STATS, draws>>

\* mutant of Reject: the Run button is not enabled again
Reject_button_left_disabled(msg) ==
    /\ message' = msg
    /\ pc' = "disabled"
    /\ UNCHANGED <<widgets, setup, totals, group_totals, all_matches_data,
                   matchups, match_i, bracket, group_vars, result, PLAYER_STATS, draws>>

\* a rejected request: the message box, then return
Reject(msg) ==
    /\ message' = msg
    /\ UNCHANGED <<pc, widgets, setup, totals, group_totals, all_matches_data,
                   matchups, match_i, bracket, group_vars, result, PLAYER_STATS, draws>>

\* From the click on Run to the first match: validation, the seeding sort
\* and the set-up of the chosen format.
RunTournament ==
    /\ pc = "idle"
    /\ UNCHANGED tabs
    /\ LET selected == get_selected_participants
           n_groups == IF groups_visible THEN groups_spin ELSE 1
           n_qualifiers == IF groups_visible THEN qualifiers_spin ELSE 1
           seeding == seeding_checked /\ seeding_visible
           parts == IF seeding THEN sort_by_name(selected) ELSE selected
       IN
       IF Len(selected) < 2 THEN Reject("Need >= 2 participants.")
       ELSE IF tourn_type = GroupKnockout /\ Len(selected) < n_groups * 2
            THEN Reject("Too few participants for groups.")
       ELSE IF tourn_type = GroupKnockout /\ n_qualifiers * n_groups < 2
            THEN Reject("Need >= 2 total qualifiers.")
       ELSE IF tourn_type = GroupKnockout /\ n_qualifiers < 1
            THEN Reject("Need >= 1 qualifier per group.")
       ELSE
         /\ participants' = parts
         /\ num_groups' = n_groups
         /\ num_qualifiers' = n_qualifiers
         /\ use_seeding' = seeding
         /\ message' = None
         /\ UNCHANGED <<widgets, totals, group_totals, all_matches_data,
                        PLAYER_STATS, draws, next_round>>
         /\ CASE tourn_type = RoundRobin ->
                   /\ matchups' = combinations(parts)
                   /\ match_i' = 1
                   /\ pc' = "rr_match"
                   /\ UNCHANGED <<current_round_participants, round_num, full_ranking_data,
                                  group_vars, result>>
              [] tourn_type = Elimination ->
                   /\ current_round_participants' = parts
                   /\ full_ranking_data' =
                         [q \in Range(parts) |-> [score |-> 0, games |-> 0, elim_round |-> Infinity]]
                   /\ pc' = "elim_round"
                   /\ UNCHANGED <<matchups, match_i, round_num, group_vars, result>>
              [] tourn_type = GroupKnockout ->
                   \E shuffled \in shuffle(parts) :
                      LET gs == partition_groups(shuffled, n_groups)
                          first == skip_groups(gs, 1, <<>>, <<>>, n_qualifiers)
                      IN  /\ groups' = gs
                          /\ g_idx' = first.g_idx
                          /\ UNCHANGED full_ranking_data
                          /\ IF first.g_idx <= Len(gs)
                             THEN /\ qualifiers' = first.qualifiers
                                  /\ matchups' = combinations(gs[first.g_idx])
                                  /\ match_i' = 1
                                  /\ pc' = "group_match"
                                  /\ UNCHANGED <<current_round_participants, round_num, result>>
                             ELSE /\ EnterKnockout(first.qualifiers, group_stage_scores,
                                                   group_stage_games, parts, seeding)
                                  /\ UNCHANGED <<matchups, match_i>>

\* One Round Robin match; after the last one, the ranking.
RRMatch ==
    /\ pc = "rr_match"
    /\ UNCHANGED tabs
    /\ LET p1_id == matchups[match_i][1]
           p2_id == matchups[match_i][2]
       IN \E o \in play_match(p1_id, p2_id) :
          LET s1 == o.g.score1
              s2 == o.g.score2
              scores == DictAdd(DictAdd(tournament_scores, p1_id, s1), p2_id, s2)
              games == [games_played EXCEPT ![p1_id] = @ + 1, ![p2_id] = @ + 1]
              ranked == ranked_by_score(scores)
          IN  /\ draws' = draws + o.c
              /\ tournament_scores' = scores
              /\ games_played' = games
              /\ PLAYER_STATS' = update_player_stats(PLAYER_STATS, p1_id, p2_id, s1, s2)
              /\ all_matches_data' = Append(all_matches_data, match_data("Tournament Round Robin", o.g))
              /\ IF match_i < Len(matchups)
                 THEN /\ match_i' = match_i + 1
                      /\ UNCHANGED <<pc, result>>
                 ELSE /\ winner_id' = IF ranked # <<>> THEN ranked[1].id ELSE None
                      /\ final_standings' = standings_of(ranked, games)
                      /\ pc' = "done"
                      /\ UNCHANGED match_i
    /\ UNCHANGED <<message, widgets, setup, group_totals, matchups, bracket, group_vars>>

\* The head of one Elimination round: the bye and the pairing.
ElimRound ==
    /\ pc = "elim_round"
    /\ UNCHANGED tabs
    /\ next_round' = bye_of(current_round_participants)
    /\ current_round_participants' = after_bye(current_round_participants)
    /\ matchups' = zip_pairs(after_bye(current_round_participants))
    /\ match_i' = 1
    /\ pc' = "elim_match"
    /\ UNCHANGED <<message, widgets, setup, totals, group_totals, all_matches_data,
                   round_num, full_ranking_data, group_vars, result, PLAYER_STATS, draws>>

\* One Elimination match; after the last one of the last round, the ranking.
ElimMatch ==
    /\ pc = "elim_match"
    /\ UNCHANGED tabs
    /\ LET p1_id == matchups[match_i][1]
           p2_id == matchups[match_i][2]
       IN \E o \in play_match(p1_id, p2_id) :
          LET s1 == o.g.score1
              s2 == o.g.score2
              winner == match_winner(p1_id, p2_id, s1, s2)
              loser == IF winner = p1_id THEN p2_id ELSE p1_id
              played == [full_ranking_data EXCEPT
                            ![p1_id] = [@ EXCEPT !.score = @ + s1, !.games = @ + 1],
                            ![p2_id] = [@ EXCEPT !.score = @ + s2, !.games = @ + 1]]
              data == [played EXCEPT ![loser].elim_round = round_num]
              next == Append(next_round, winner)
              last == IF next # <<>> THEN next[1] ELSE None
              final == IF last # None THEN [data EXCEPT ![last].elim_round = round_num + 1] ELSE data
          IN  /\ draws' = draws + o.c
              /\ PLAYER_STATS' = update_player_stats(PLAYER_STATS, p1_id, p2_id, s1, s2)
              /\ all_matches_data' = Append(all_matches_data, match_data("Tournament Elimination", o.g))
              /\ IF match_i < Len(matchups)
                 THEN /\ match_i' = match_i + 1
                      /\ next_round' = next
                      /\ full_ranking_data' = data
                      /\ UNCHANGED <<pc, current_round_participants, round_num, result>>
                 ELSE /\ current_round_participants' = next
                      /\ next_round' = next
                      /\ round_num' = round_num + 1
                      /\ UNCHANGED match_i
                      /\ IF Len(next) > 1
                         THEN /\ pc' = "elim_round"
                              /\ full_ranking_data' = data
                              /\ UNCHANGED result
                         ELSE /\ pc' = "done"
                              /\ winner_id' = last
                              /\ full_ranking_data' = final
                              /\ final_standings' =
                                    elimination_standings(elimination_ranked(participants, final), final)
    /\ UNCHANGED <<message, widgets, setup, totals, group_totals, matchups, group_vars>>

\* One group-stage match; after the last match of a group its qualifiers;
\* after the last group the knockout bracket is seeded (or, with fewer than
\* two qualifiers, the tournament ends).
GroupMatch ==
    /\ pc = "group_match"
    /\ UNCHANGED tabs
    /\ LET p1_id == matchups[match_i][1]
           p2_id == matchups[match_i][2]
       IN \E o \in play_match(p1_id, p2_id) :
          LET s1 == o.g.score1
              s2 == o.g.score2
              g_scores == DictAdd(DictAdd(group_stage_scores, p1_id, s1), p2_id, s2)
              g_games == [group_stage_games EXCEPT ![p1_id] = @ + 1, ![p2_id] = @ + 1]
              quals == qualifiers \o
                          group_qualifiers(group_ranked(groups[g_idx], g_scores), num_qualifiers)
              nxt == skip_groups(groups, g_idx + 1, quals, g_scores, num_qualifiers)
          IN  /\ draws' = draws + o.c
              /\ group_stage_scores' = g_scores
              /\ group_stage_games' = g_games
              /\ tournament_scores' = DictAdd(DictAdd(tournament_scores, p1_id, s1), p2_id, s2)
              /\ games_played' = [games_played EXCEPT ![p1_id] = @ + 1, ![p2_id] = @ + 1]
              /\ PLAYER_STATS' = update_player_stats(PLAYER_STATS, p1_id, p2_id, s1, s2)
              /\ all_matches_data' = Append(all_matches_data, match_data("Tournament Group Stage", o.g))
              /\ IF match_i < Len(matchups)
                 THEN /\ match_i' = match_i + 1
                      /\ UNCHANGED <<pc, matchups, g_idx, qualifiers, result,
                                     current_round_participants, round_num>>
                 ELSE IF nxt.g_idx <= Len(groups)
                 THEN /\ g_idx' = nxt.g_idx
                      /\ qualifiers' = nxt.qualifiers
                      /\ matchups' = combinations(groups[nxt.g_idx])
                      /\ match_i' = 1
                      /\ UNCHANGED <<pc, result, current_round_participants, round_num>>
                 ELSE /\ g_idx' = nxt.g_idx
                      /\ EnterKnockout(nxt.qualifiers, g_scores, g_games, participants, use_seeding)
                      /\ UNCHANGED <<matchups, match_i>>
    /\ UNCHANGED <<message, widgets, setup, groups, next_round, full_ranking_data>>

\* The head of one Knockout round: the bye and the pairing.  qualifiers and
\* current_round_participants are the same list in the first round, so the
\* pop(0) of the bye shows in both.
KORound ==
    /\ pc = "ko_round"
    /\ UNCHANGED tabs
    /\ next_round' = bye_of(current_round_participants)
    /\ current_round_participants' = after_bye(current_round_participants)
    /\ qualifiers' = IF round_num = 1 THEN after_bye(current_round_participants) ELSE qualifiers
    /\ matchups' = zip_pairs(after_bye(current_round_participants))
    /\ match_i' = 1
    /\ pc' = "ko_match"
    /\ UNCHANGED <<message, widgets, setup, totals, group_totals, all_matches_data,
                   round_num, full_ranking_data, groups, g_idx, result, PLAYER_STATS, draws>>

\* One Knockout match; after the last one of the last round, the winner and
\* the standings (from the group-stage scores).
KOMatch ==
    /\ pc = "ko_match"
    /\ UNCHANGED tabs
    /\ LET p1_id == matchups[match_i][1]
           p2_id == matchups[match_i][2]
       IN \E o \in play_match(p1_id, p2_id) :
          LET s1 == o.g.score1
              s2 == o.g.score2
              winner == match_winner(p1_id, p2_id, s1, s2)
              next == Append(next_round, winner)
          IN  /\ draws' = draws + o.c
              /\ tournament_scores' = DictAdd(DictAdd(tournament_scores, p1_id, s1), p2_id, s2)
              /\ games_played' = [games_played EXCEPT ![p1_id] = @ + 1, ![p2_id] = @ + 1]
              /\ PLAYER_STATS' = update_player_stats(PLAYER_STATS, p1_id, p2_id, s1, s2)
              /\ all_matches_data' = Append(all_matches_data, match_data("Tournament Knockout", o.g))
              /\ next_round' = next
              /\ IF match_i < Len(matchups)
                 THEN /\ match_i' = match_i + 1
                      /\ UNCHANGED <<pc, current_round_participants, round_num, result>>
                 ELSE /\ current_round_participants' = next
                      /\ round_num' = round_num + 1
                      /\ UNCHANGED match_i
                      /\ IF Len(next) > 1
                         THEN /\ pc' = "ko_round"
                              /\ UNCHANGED result
                         ELSE /\ pc' = "done"
                              /\ winner_id' = IF next # <<>> THEN next[1] ELSE None
                              /\ final_standings' =
                                    group_standings(group_stage_scores, group_stage_games, participants)
    /\ UNCHANGED <<message, widgets, setup, group_totals, matchups, full_ranking_data, group_vars>>

(***************************************************************************)
(* The single game tab                                                     *)
(***************************************************************************)
\* the row excel_logger.log_match writes for a single game
single_game_row(g) ==
    [sim_type |-> "Single Game", p1_id |-> g.strategy1_id, p2_id |-> g.strategy2_id,
     rounds |-> Len(g.history1), score1 |-> g.score1, score2 |-> g.score2,
     history1 |-> g.history1, history2 |-> g.history2]

\* mutant of stopped_stats: a game stopped before its last round is dropped
stopped_stats_full_games_only(g, stats) ==
    IF g # Nothing /\ Len(g.history1) >= g.num_rounds
    THEN update_player_stats(stats, g.strategy1_id, g.strategy2_id, g.score1, g.score2)
    ELSE stats

\* stop_single_game: the statistics after it (updated when the game has
\* played at least one round)
stopped_stats(g, stats) ==
    IF g # Nothing /\ Len(g.history1) > 0
    THEN update_player_stats(stats, g.strategy1_id, g.strategy2_id, g.score1, g.score2)
    ELSE stats

\* stop_single_game: the log after it
stopped_log(g, log) ==
    IF g # Nothing /\ Len(g.history1) > 0 THEN Append(log, single_game_row(g)) ELSE log

\* The Run button of the single game tab (disabled while a game runs).  The
\* handler calls processEvents between the construction of the Game and the
\* start of the timer: a click on Stop, enabled by then, may be dispatched
\* there and stops the game before its first round.
start_single_game ==
    /\ current_game = Nothing
    /\ Len(excel_log) < MaxGames
    \* a game still running would be stopped first
    /\ LET stats == IF single_game_timer THEN stopped_stats(current_game, PLAYER_STATS)
                                         ELSE PLAYER_STATS
           log == IF single_game_timer THEN stopped_log(current_game, excel_log)
                                       ELSE excel_log
           game == IF single_game_timer THEN Nothing ELSE current_game
       IN  /\ PLAYER_STATS' = stats
           /\ excel_log' = log
           /\ single_game_max_rounds' = sg_rounds_spin
           /\ IF sg_p1_combo \notin STRATEGIES \/ sg_p2_combo \notin STRATEGIES
              THEN /\ message' = "Invalid strategy selected."
                   /\ current_game' = game
                   /\ single_game_timer' = FALSE
                   /\ UNCHANGED single_game_round_counter
              ELSE \E stop_clicked \in BOOLEAN :
                   /\ current_game' = IF stop_clicked THEN Nothing
                                      ELSE Game(sg_p1_combo, sg_p2_combo, sg_rounds_spin,
                                                global_noise, global_forgiveness)
                   /\ single_game_round_counter' = 0
                   /\ single_game_timer' = TRUE
                   /\ UNCHANGED message
    /\ UNCHANGED <<pc, widgets, setup, totals, group_totals, all_matches_data, matchups,
                   match_i, bracket, group_vars, result, draws, CUSTOM_STRATEGIES,
                   sg_p1_combo, sg_p2_combo, sg_rounds_spin, sandbox_vars, call_vars>>

\* One timeout of single_game_timer: the next round, or the end of the game.
run_single_game_step ==
    /\ single_game_timer
    /\ IF current_game = Nothing
       THEN /\ single_game_timer' = FALSE
            /\ UNCHANGED <<current_game, single_game_round_counter, PLAYER_STATS,
                           excel_log, draws>>
       ELSE IF single_game_round_counter < single_game_max_rounds
       THEN \E o \in play_round(current_game, single_game_round_counter) :
               /\ o.c <= MaxDraws - draws
               /\ draws' = draws + o.c
               /\ current_game' = o.g
               /\ single_game_round_counter' = single_game_round_counter + 1
               /\ UNCHANGED <<single_game_timer, PLAYER_STATS, excel_log>>
       ELSE /\ single_game_timer' = FALSE
            /\ PLAYER_STATS' = stopped_stats(current_game, PLAYER_STATS)
            /\ excel_log' = stopped_log(current_game, excel_log)
            /\ current_game' = Nothing
            /\ UNCHANGED <<single_game_round_counter, draws>>
    /\ UNCHANGED <<tournament_vars, CUSTOM_STRATEGIES, sg_p1_combo, sg_p2_combo,
                   sg_rounds_spin, single_game_max_rounds, sandbox_vars, call_vars>>

\* The Stop button of the single game tab (enabled while a game runs).
stop_single_game ==
    /\ current_game # Nothing
    /\ single_game_timer' = FALSE
    /\ PLAYER_STATS' = stopped_stats(current_game, PLAYER_STATS)
    /\ excel_log' = stopped_log(current_game, excel_log)
    /\ current_game' = Nothing
    /\ UNCHANGED <<tournament_vars, draws, CUSTOM_STRATEGIES, sg_p1_combo, sg_p2_combo,
                   sg_rounds_spin, single_game_round_counter, single_game_max_rounds,
                   sandbox_vars, call_vars>>

\* The single game tab, with noise and forgiveness, next to a Round Robin of
\* two participants.
InitGame ==
    /\ CUSTOM_STRATEGIES = NoCustom
    /\ SandboxTabInit /\ NoCall
    /\ sg_p1_combo \in STRATEGIES /\ sg_p2_combo \in STRATEGIES
    /\ sg_rounds_spin \in 1..MaxSingleRounds
    /\ current_game = Nothing
    /\ single_game_round_counter = 0
    /\ single_game_max_rounds = DEFAULT_ROUNDS
    /\ single_game_timer = FALSE
    /\ excel_log = <<>>
    /\ TournamentTabIdle
    /\ checked = {"defect", "tit_for_tat"}
    /\ tourn_type = RoundRobin
    /\ global_noise \in {0, slider_max}
    /\ global_forgiveness \in {0, slider_max}
    /\ PLAYER_STATS = <<>>
    /\ draws = 0

NextGame ==
    \/ start_single_game
    \/ run_single_game_step
    \/ stop_single_game
    \/ RunTournament
    \/ RRMatch

SpecGame == InitGame /\ [][NextGame]_vars

(***************************************************************************)
(* The sandbox tab                                                         *)
(***************************************************************************)
\* update_sandbox_ui: sandbox_p1_manual, sandbox_p2_manual
sandbox_p1_manual == sandbox_p1_combo = "manual"
sandbox_p2_manual == sandbox_p2_combo = "manual"

\* check_sandbox_ready_for_next_round: is_ready
sandbox_is_ready ==
    /\ sandbox_game # Nothing
    /\ ~sandbox_p1_manual \/ sandbox_p1_move # None
    /\ ~sandbox_p2_manual \/ sandbox_p2_move # None

\* The Reset button: a new Game of MAX_ROUNDS rounds.
sandbox_reset ==
    /\ sandbox_game' = Game(IF sandbox_p1_manual THEN "manual_p1" ELSE sandbox_p1_combo,
                            IF sandbox_p2_manual THEN "manual_p2" ELSE sandbox_p2_combo,
                            MAX_ROUNDS, global_noise, global_forgiveness)
    /\ sandbox_p1_move' = None /\ sandbox_p2_move' = None
    /\ UNCHANGED <<tournament_vars, PLAYER_STATS, draws, CUSTOM_STRATEGIES, single_vars,
                   sandbox_p1_combo, sandbox_p2_combo, call_vars>>

\* A click on a Cooperate or Defect button of a manual player (enabled while
\* that player has not moved); manual rounds are played up to MaxManualRounds.
sandbox_manual_move ==
    /\ sandbox_game # Nothing
    /\ Len(sandbox_game.history1) < MaxManualRounds
    /\ \E player_index \in {0, 1}, move \in {COOPERATE, DEFECT} :
          \/ /\ player_index = 0 /\ sandbox_p1_manual /\ sandbox_p1_move = None
             /\ sandbox_p1_move' = move
             /\ UNCHANGED sandbox_p2_move
          \/ /\ player_index = 1 /\ sandbox_p2_manual /\ sandbox_p2_move = None
             /\ sandbox_p2_move' = move
             /\ UNCHANGED sandbox_p1_move
    /\ UNCHANGED <<tournament_vars, PLAYER_STATS, draws, CUSTOM_STRATEGIES, single_vars,
                   sandbox_p1_combo, sandbox_p2_combo, sandbox_game, call_vars>>

\* the intended moves of a sandbox player: the manual move, or
\* STRATEGIES[p_id]['func'](...); a KeyError when the id is not registered
sandbox_intended(manual, move, p_id, my_history, opponent_history, round_number) ==
    IF manual THEN {Mv(move, 0)}
    ELSE IF p_id \notin STRATEGIES THEN {Mv("KeyError", 0)}
    ELSE Call(strategy_func(p_id), my_history, opponent_history, round_number,
              global_forgiveness)

\* The Next Round button (enabled when is_ready): one round, applied to the
\* histories and scores of sandbox_game.
sandbox_play_next_round ==
    /\ sandbox_is_ready
    /\ Len(sandbox_game.history1) < MaxSandboxRounds
    /\ LET g == sandbox_game
           round_number == Len(g.history1)
       IN \E i1 \in sandbox_intended(sandbox_p1_manual, sandbox_p1_move, sandbox_p1_combo,
                                      g.history1, g.history2, round_number),
             i2 \in sandbox_intended(sandbox_p2_manual, sandbox_p2_move, sandbox_p2_combo,
                                      g.history2, g.history1, round_number) :
          IF "KeyError" \in {i1.m, i2.m}
          THEN \* the error box, then sandbox_reset
               /\ message' = "Sandbox Error: Unknown strategy ID used"
               /\ sandbox_game' = Game(IF sandbox_p1_manual THEN "manual_p1" ELSE sandbox_p1_combo,
                                       IF sandbox_p2_manual THEN "manual_p2" ELSE sandbox_p2_combo,
                                       MAX_ROUNDS, global_noise, global_forgiveness)
               /\ UNCHANGED draws
          ELSE \E a1 \in Noisy(i1.m, global_noise), a2 \in Noisy(i2.m, global_noise) :
                 LET payoff == PAYOFFS(a1.m, a2.m)
                     c == i1.c + i2.c + a1.c + a2.c
                 IN  /\ c <= MaxDraws - draws
                     /\ draws' = draws + c
                     /\ sandbox_game' = [g EXCEPT !.history1 = Append(@, a1.m),
                                                  !.history2 = Append(@, a2.m),
                                                  !.score1 = @ + payoff[1],
                                                  !.score2 = @ + payoff[2]]
                     /\ UNCHANGED message
    /\ sandbox_p1_move' = None /\ sandbox_p2_move' = None
    /\ UNCHANGED <<pc, widgets, setup, totals, group_totals, all_matches_data, matchups,
                   match_i, bracket, group_vars, result, PLAYER_STATS, CUSTOM_STRATEGIES,
                   single_vars, sandbox_p1_combo, sandbox_p2_combo, call_vars>>

\* The sandbox tab alone; noise and forgiveness are above 0 only with a manual
\* player.
InitSandbox ==
    /\ CUSTOM_STRATEGIES = NoCustom
    /\ SingleGameTabInit /\ NoCall
    /\ sandbox_p1_combo \in {"manual"} \cup STRATEGIES
    /\ sandbox_p2_combo \in {"manual"} \cup STRATEGIES
    /\ sandbox_game = Nothing
    /\ sandbox_p1_move = None /\ sandbox_p2_move = None
    /\ TournamentTabIdle
    /\ checked = {}
    /\ tourn_type = RoundRobin
    /\ global_noise \in IF "manual" \in {sandbox_p1_combo, sandbox_p2_combo}
                         THEN {0, slider_max} ELSE {0}
    /\ global_forgiveness \in IF "manual" \in {sandbox_p1_combo, sandbox_p2_combo}
                               THEN {0, slider_max} ELSE {0}
    /\ PLAYER_STATS = <<>>
    /\ draws = 0

NextSandbox ==
    \/ sandbox_reset
    \/ sandbox_manual_move
    \/ sandbox_play_next_round

SpecSandbox == InitSandbox /\ [][NextSandbox]_vars

(***************************************************************************)
(* Custom strategy functions on their own: the rule sets the dialog and    *)
(* the custom strategies file can hold, called as a game calls them        *)
(* (round_number is the length of the histories)                           *)
(***************************************************************************)
\* zero or one of the values
Opt(values) == {<<>>} \cup {<<x>> : x \in values}

\* the thresholds explored for opp_coop_lt (a percentage) and round_gt
CoopThresholds == {50}
RoundThresholds == {0, 1}

\* rules['opp_last_move']: a target for "C", for "D", for both or for none
OppLastMoveRules == UNION {[K -> {COOPERATE, DEFECT}] : K \in SUBSET {"C", "D"}}

RuleSet(d, o, c, r) ==
    [k \in (IF d # <<>> THEN {"default"} ELSE {})
              \cup (IF o # <<>> THEN {"opp_last_move"} ELSE {})
              \cup (IF c # <<>> THEN {"opp_coop_lt"} ELSE {})
              \cup (IF r # <<>> THEN {"round_gt"} ELSE {}) |->
        CASE k = "default" -> d[1]
          [] k = "opp_last_move" -> o[1]
          [] k = "opp_coop_lt" -> c[1]
          [] k = "round_gt" -> r[1]]

RuleSets ==
    {RuleSet(d, o, c, r) :
        d \in Opt({COOPERATE, DEFECT}),
        o \in Opt(OppLastMoveRules),
        c \in Opt([value : CoopThresholds, move : {COOPERATE, DEFECT}]),
        r \in Opt([value : RoundThresholds, move : {COOPERATE, DEFECT}])}

\* the histories of n rounds
Histories(n) == [1..n -> {COOPERATE, DEFECT}]

\* open_define_custom_strategy_dialog / load_custom_strategies: the function
\* object is built from the rules
DefineCustom ==
    /\ cs_call # Nothing /\ cs_call.func = Nothing
    /\ cs_call' = [cs_call EXCEPT !.func = create_custom_strategy_function(cs_call.rules)]
    /\ UNCHANGED <<tournament_vars, PLAYER_STATS, draws, CUSTOM_STRATEGIES, single_vars,
                   sandbox_vars, cs_move, engine_args, engine_game>>

\* one call of the function object, as Game.play_round makes it
CallCustom ==
    /\ cs_call # Nothing /\ cs_call.func # Nothing /\ cs_move = Nothing
    /\ \E x \in Call(cs_call.func, cs_call.my_history, cs_call.opponent_history,
                      cs_call.round_number, cs_call.forgiveness_prob) :
          /\ cs_move' = x
          /\ draws' = draws + x.c
    /\ UNCHANGED <<tournament_vars, PLAYER_STATS, CUSTOM_STRATEGIES, single_vars,
                   sandbox_vars, cs_call, engine_args, engine_game>>

InitCustom ==
    /\ CUSTOM_STRATEGIES = NoCustom
    /\ SingleGameTabInit /\ SandboxTabInit
    /\ TournamentTabIdle
    /\ checked = {} /\ tourn_type = RoundRobin
    /\ global_noise = 0
    /\ global_forgiveness \in {0, slider_max}
    /\ PLAYER_STATS = <<>>
    /\ draws = 0
    /\ \E n \in 0..MaxHistory :
          cs_call \in [rules : RuleSets, func : {Nothing},
                       my_history : Histories(n), opponent_history : Histories(n),
                       round_number : {n}, forgiveness_prob : {global_forgiveness}]
    /\ cs_move = Nothing
    /\ NoEngine

NextCustom ==
    \/ DefineCustom
    \/ CallCustom

SpecCustom == InitCustom /\ [][NextCustom]_vars

(***************************************************************************)
(* class Game on its own: constructed and played round by round, as        *)
(* run_game does, with probabilities inside and outside [0, 1]             *)
(***************************************************************************)
\* the probabilities explored, in the unit of the sliders: below 0, 0, the
\* largest value of the sliders, above 1
EngineProbabilities == {0 - 1, 0, slider_max, One + 1}

\* Game(strategy1_id, strategy2_id, num_rounds, noise_prob, forgiveness_prob)
EngineNew ==
    /\ engine_game = Nothing
    /\ engine_game' = Game(engine_args.strategy1_id, engine_args.strategy2_id,
                           engine_args.num_rounds, engine_args.noise_prob,
                           engine_args.forgiveness_prob)
    /\ UNCHANGED <<tournament_vars, PLAYER_STATS, draws, CUSTOM_STRATEGIES, single_vars,
                   sandbox_vars, cs_call, cs_move, engine_args>>

\* game.play_round(r), r being the next round of run_game
EnginePlayRound ==
    /\ engine_game # Nothing
    /\ Len(engine_game.history1) < engine_game.num_rounds
    /\ \E o \in play_round(engine_game, Len(engine_game.history1)) :
          /\ engine_game' = o.g
          /\ draws' = draws + o.c
    /\ UNCHANGED <<tournament_vars, PLAYER_STATS, CUSTOM_STRATEGIES, single_vars,
                   sandbox_vars, cs_call, cs_move, engine_args>>

InitEngine ==
    /\ CUSTOM_STRATEGIES = NoCustom
    /\ SingleGameTabInit /\ SandboxTabInit
    /\ TournamentTabIdle
    /\ checked = {} /\ tourn_type = RoundRobin
    /\ global_noise = 0 /\ global_forgiveness = 0
    /\ PLAYER_STATS = <<>>
    /\ draws = 0
    /\ cs_call = Nothing /\ cs_move = Nothing
    /\ engine_args \in [strategy1_id : STRATEGIES, strategy2_id : STRATEGIES,
                         num_rounds : {MaxEngineRounds},
                         noise_prob : EngineProbabilities,
                         forgiveness_prob : EngineProbabilities]
    /\ engine_game = Nothing

NextEngine ==
    \/ EngineNew
    \/ EnginePlayRound

SpecEngine == InitEngine /\ [][NextEngine]_vars

(***************************************************************************)
(* Round Robin tournaments of 10 rounds per game without noise and         *)
(* forgiveness, among any of the built-in strategies                       *)
(***************************************************************************)
InitScenario ==
    /\ CUSTOM_STRATEGIES = NoCustom
    /\ SingleGameTabInit /\ SandboxTabInit /\ NoCall
    /\ pc = "idle"
    /\ message = None
    /\ checked \in SUBSET STRATEGIES
    /\ tourn_type = RoundRobin
    /\ rounds_spin = 10
    /\ groups_spin = 2 /\ qualifiers_spin = 2 /\ seeding_checked = FALSE
    /\ global_noise = 0 /\ global_forgiveness = 0
    /\ participants = <<>> /\ num_groups = 1 /\ num_qualifiers = 1 /\ use_seeding = FALSE
    /\ tournament_scores = <<>> /\ games_played = Zero
    /\ group_stage_scores = <<>> /\ group_stage_games = Zero
    /\ all_matches_data = <<>> /\ matchups = <<>> /\ match_i = 1
    /\ current_round_participants = <<>> /\ next_round = <<>> /\ round_num = 1
    /\ full_ranking_data = <<>>
    /\ groups = <<>> /\ g_idx = 1 /\ qualifiers = <<>>
    /\ final_standings = <<>> /\ winner_id = None
    /\ PLAYER_STATS = <<>>
    /\ draws = 0

NextScenario ==
    \/ RunTournament
    \/ RRMatch

SpecScenario == InitScenario /\ [][NextScenario]_vars

(***************************************************************************)
(* The registry reloaded while games run: the Load button of the           *)
(* strategies tab stays enabled, and run_tournament and the single game     *)
(* timer hand control to the event loop between matches and rounds          *)
(***************************************************************************)
\* the rules of the custom strategy "Zed"
ZedRules == RuleSet(<<DEFECT>>, <<>>, <<>>, <<>>)

\* what the custom strategies file can hold: nothing (or no file), or "Zed"
CustomFiles == {NoCustom, [id \in CustomIds |-> ZedRules]}

\* restore_combo of update_all_strategy_selectors: the item kept, or the
\* item at default_index
restore_combo(items, data_to_restore, default_index) ==
    IF \E i \in 1..Len(items) : items[i] = data_to_restore
    THEN data_to_restore
    ELSE items[default_index + 1]

\* The Load button: load_custom_strategies rebuilds the registry from the
\* built-ins and the file, update_all_strategy_selectors refills the
\* selectors and restores what was selected and checked.
load_and_update_custom_strategies ==
    \E file \in CustomFiles :
       LET registry == BUILT_IN_STRATEGIES_META \cup DOMAIN file
           items == sorted_strategies(registry)
           default_sg_p2 == IF Len(items) > 1 /\ sg_p1_combo # items[2] THEN 1 ELSE 0
           sandbox_items == <<"manual">> \o items
       IN  /\ CUSTOM_STRATEGIES' = file
           /\ checked' = checked \cap registry
           /\ sg_p1_combo' = restore_combo(items, sg_p1_combo, 0)
           /\ sg_p2_combo' = restore_combo(items, sg_p2_combo, default_sg_p2)
           /\ sandbox_p1_combo' = restore_combo(sandbox_items, sandbox_p1_combo, 0)
           /\ sandbox_p2_combo' = restore_combo(sandbox_items, sandbox_p2_combo, 0)
           /\ UNCHANGED <<pc, message, tourn_type, rounds_spin, groups_spin, qualifiers_spin,
                          seeding_checked, global_noise, global_forgiveness, setup, totals,
                          group_totals, all_matches_data, matchups, match_i, bracket,
                          group_vars, result, PLAYER_STATS, draws, sg_rounds_spin,
                          current_game, single_game_round_counter, single_game_max_rounds,
                          single_game_timer, excel_log, sandbox_game, sandbox_p1_move,
                          sandbox_p2_move, call_vars>>

\* A Round Robin and the single game tab, without noise, with the custom
\* strategy "Zed" in the file at start-up or not.
InitRegistry ==
    /\ CUSTOM_STRATEGIES \in CustomFiles
    /\ SandboxTabInit /\ NoCall
    /\ sg_p1_combo = (IF "custom_zed" \in STRATEGIES THEN "custom_zed" ELSE "cooperate")
    /\ sg_p2_combo = "tit_for_tat"
    /\ sg_rounds_spin \in 1..MaxSingleRounds
    /\ current_game = Nothing
    /\ single_game_round_counter = 0
    /\ single_game_max_rounds = DEFAULT_ROUNDS
    /\ single_game_timer = FALSE
    /\ excel_log = <<>>
    /\ TournamentTabIdle
    /\ checked \in SUBSET (STRATEGIES \cap {"defect", "tit_for_tat", "custom_zed"})
    /\ tourn_type = RoundRobin
    /\ global_noise = 0
    /\ global_forgiveness = 0
    /\ PLAYER_STATS = <<>>
    /\ draws = 0

NextRegistry ==
    \/ load_and_update_custom_strategies
    \/ start_single_game
    \/ run_single_game_step
    \/ stop_single_game
    \/ RunTournament
    \/ RRMatch

SpecRegistry == InitRegistry /\ [][NextRegistry]_vars

Next ==
    \/ ToggleParticipant
    \/ select_all_participants
    \/ select_none_participants
    \/ SetGroups
    \/ SetQualifiers
    \/ RunTournament
    \/ RRMatch
    \/ ElimRound
    \/ ElimMatch
    \/ GroupMatch
    \/ KORound
    \/ KOMatch

Spec == Init /\ [][Next]_vars

(***************************************************************************)
(* What the match log says, independently of the running totals            *)
(***************************************************************************)
\* the score a strategy made in the logged matches of the given kinds
LogScore(id, kinds) ==
    LET M == all_matches_data
        sum[k \in 0..Len(M)] ==
            IF k = 0 THEN 0
            ELSE sum[k - 1]
                 + (IF M[k].sim_type \in kinds /\ M[k].p1_id = id THEN M[k].score1 ELSE 0)
                 + (IF M[k].sim_type \in kinds /\ M[k].p2_id = id THEN M[k].score2 ELSE 0)
    IN  sum[Len(M)]

\* the logged matches of the given kinds a strategy played in
LogGames(id, kinds) ==
    {k \in 1..Len(all_matches_data) :
        /\ all_matches_data[k].sim_type \in kinds
        /\ id \in {all_matches_data[k].p1_id, all_matches_data[k].p2_id}}

\* where a strategy is first named in the log (player one before player two)
FirstAppearance(id) ==
    LET M == all_matches_data
        at == {2 * k - 1 : k \in {j \in 1..Len(M) : M[j].p1_id = id}}
                 \cup {2 * k : k \in {j \in 1..Len(M) : M[j].p2_id = id}}
    IN  IF at = {} THEN 0 ELSE CHOOSE a \in at : \A b \in at : a <= b

RRKind == {"Tournament Round Robin"}
GroupKind == {"Tournament Group Stage"}
BracketKind == {"Tournament Elimination", "Tournament Knockout"}

(***************************************************************************)
(* C1: a finished Round Robin of n participants has played exactly one     *)
(* match for every unordered pair of participants and no other match:      *)
(* n*(n-1)/2 matches, n-1 of them for every participant.                   *)
(***************************************************************************)
C1_RoundRobinAllPairs ==
    (tourn_type = RoundRobin /\ pc = "done") =>
        LET M == all_matches_data
            n == Len(participants)
            ids == Range(participants)
        IN  /\ n >= 2
            /\ Len(M) = (n * (n - 1)) \div 2
            /\ \A k \in 1..Len(M) :
                  /\ M[k].p1_id \in ids /\ M[k].p2_id \in ids
                  /\ M[k].p1_id # M[k].p2_id
            /\ \A a, b \in ids :
                  a # b => Cardinality({k \in 1..Len(M) : {M[k].p1_id, M[k].p2_id} = {a, b}}) = 1
            /\ \A a \in ids : Cardinality(LogGames(a, RRKind)) = n - 1

C1_Witness ==
    /\ tourn_type = RoundRobin /\ pc = "done"
    /\ Len(participants) = 4
    /\ Len(all_matches_data) = 6

(***************************************************************************)
(* C2: the Round Robin standings are in descending order of the cumulative *)
(* tournament score; entries of equal score are in the order of their      *)
(* first appearance in the pair enumeration; the winner is the rank-1      *)
(* entry.                                                                  *)
(***************************************************************************)
C2_RoundRobinRanking ==
    (tourn_type = RoundRobin /\ pc = "done") =>
        LET fs == final_standings
        IN  /\ Len(fs) = Len(participants)
            /\ \A i \in 1..Len(fs) :
                  /\ fs[i].rank = i
                  /\ fs[i].score = LogScore(fs[i].id, RRKind)
            /\ \A i, j \in 1..Len(fs) :
                  i < j => \/ fs[i].score > fs[j].score
                           \/ /\ fs[i].score = fs[j].score
                              /\ FirstAppearance(fs[i].id) < FirstAppearance(fs[j].id)
            /\ winner_id = fs[1].id

C2_Witness ==
    /\ tourn_type = RoundRobin /\ pc = "done"
    /\ \E i, j \in 1..Len(final_standings) :
          /\ i < j
          /\ final_standings[i].score = final_standings[j].score
    /\ \E i, j \in 1..Len(final_standings) :
          final_standings[i].score > final_standings[j].score

(***************************************************************************)
(* The shape of a single-elimination bracket of m entrants                 *)
(***************************************************************************)
\* the number of rounds until one entrant is left
RECURSIVE BracketRounds(_)
BracketRounds(m) == IF m <= 1 THEN 0 ELSE 1 + BracketRounds((m + 1) \div 2)

\* the round the k-th match of the bracket belongs to
RECURSIVE RoundOfMatch(_, _)
RoundOfMatch(k, m) ==
    IF k <= m \div 2 THEN 1 ELSE 1 + RoundOfMatch(k - m \div 2, (m + 1) \div 2)

\* the player of a logged bracket match who goes on, and the one who is out
Advancer(md) == IF md.score1 > md.score2 THEN md.p1_id
                ELSE IF md.score2 > md.score1 THEN md.p2_id
                ELSE md.p1_id
Eliminated(md) == IF Advancer(md) = md.p1_id THEN md.p2_id ELSE md.p1_id

(***************************************************************************)
(* C3: an Elimination of n >= 2 participants never plays more than n-1     *)
(* matches and ends after exactly n-1; one participant is left, the        *)
(* winner, whose elimination round is the number of bracket rounds plus    *)
(* one; every other participant's elimination round is the round of the    *)
(* match it lost.                                                          *)
(***************************************************************************)
C3_EliminationOutcome ==
    (tourn_type = Elimination /\ pc # "idle") =>
        LET M == all_matches_data
            n == Len(participants)
        IN  /\ n >= 2
            /\ Len(M) <= n - 1
            /\ pc = "done" =>
                  /\ Len(M) = n - 1
                  /\ current_round_participants = <<winner_id>>
                  /\ winner_id \in Range(participants)
                  /\ round_num = BracketRounds(n) + 1
                  /\ full_ranking_data[winner_id].elim_round = BracketRounds(n) + 1
                  /\ \A p \in Range(participants) \ {winner_id} :
                        \E k \in 1..Len(M) :
                           /\ Eliminated(M[k]) = p
                           /\ full_ranking_data[p].elim_round = RoundOfMatch(k, n)

C3_Witness ==
    /\ tourn_type = Elimination /\ pc = "done"
    /\ Len(participants) = 5
    /\ Len(all_matches_data) = 4
    /\ full_ranking_data[winner_id].elim_round = 4

(***************************************************************************)
(* C4: at the head of every Elimination and Knockout round, when the       *)
(* number of participants is odd exactly the participant at position 0     *)
(* advances without playing and the others are paired consecutively in     *)
(* their order; when it is even nobody has a bye and all are paired        *)
(* consecutively; the matches then played are those pairs.                 *)
(***************************************************************************)
C4_ByeAndPairing ==
    [][ /\ (pc \in {"elim_round", "ko_round"} /\ pc' # pc) =>
              LET c == current_round_participants
                  n == Len(c)
              IN  IF n % 2 = 1
                  THEN /\ next_round' = <<c[1]>>
                       /\ Len(matchups') = (n - 1) \div 2
                       /\ \A k \in 1..((n - 1) \div 2) : matchups'[k] = <<c[2 * k], c[2 * k + 1]>>
                  ELSE /\ next_round' = <<>>
                       /\ Len(matchups') = n \div 2
                       /\ \A k \in 1..(n \div 2) : matchups'[k] = <<c[2 * k - 1], c[2 * k]>>
        /\ (pc \in {"elim_match", "ko_match"} /\ Len(all_matches_data') > Len(all_matches_data)) =>
              LET md == all_matches_data'[Len(all_matches_data')]
              IN  <<md.p1_id, md.p2_id>> = matchups[match_i]
      ]_vars

C4_Witness ==
    /\ pc \in {"elim_match", "ko_match"}
    /\ Len(next_round) = 1 /\ match_i = 1
    /\ Len(matchups) = 2
    /\ all_matches_data # <<>>

(***************************************************************************)
(* C5: in every Elimination and Knockout match the strictly higher scorer  *)
(* advances, player one on equal scores; the other player is out: it is in *)
(* no later bracket match, is not carried to the next round and is not the *)
(* winner.                                                                 *)
(***************************************************************************)
C5_MatchWinnerAdvances ==
    LET M == all_matches_data
        B == {k \in 1..Len(M) : M[k].sim_type \in BracketKind}
        \* the players of the matches of the running round still to play
        pending == IF pc \in {"elim_match", "ko_match"}
                   THEN UNION {{matchups[i][1], matchups[i][2]} : i \in match_i..Len(matchups)}
                   ELSE {}
    IN  \A k \in B :
           /\ \A j \in B : j > k => Eliminated(M[k]) \notin {M[j].p1_id, M[j].p2_id}
           /\ Eliminated(M[k]) \notin Range(next_round) \cup pending
           /\ Eliminated(M[k]) # winner_id
           /\ pc \in {"elim_round", "ko_round"} =>
                 Eliminated(M[k]) \notin Range(current_round_participants)
           /\ \/ Advancer(M[k]) \in Range(next_round) \cup pending
              \/ \E j \in B : j > k /\ Advancer(M[k]) \in {M[j].p1_id, M[j].p2_id}
           /\ pc = "done" =>
                 \/ Advancer(M[k]) = winner_id
                 \/ \E j \in B : j > k /\ Advancer(M[k]) \in {M[j].p1_id, M[j].p2_id}

C5_Witness ==
    /\ pc = "done"
    /\ \E k \in 1..Len(all_matches_data) :
          /\ all_matches_data[k].sim_type \in BracketKind
          /\ all_matches_data[k].score1 = all_matches_data[k].score2
    /\ \E k \in 1..Len(all_matches_data) :
          /\ all_matches_data[k].sim_type \in BracketKind
          /\ all_matches_data[k].score2 > all_matches_data[k].score1

(***************************************************************************)
(* C6: the Elimination standings are in descending order of elimination    *)
(* round and, within one elimination round, in descending order of the     *)
(* cumulative score over all the matches played in the tournament.         *)
(***************************************************************************)
C6_EliminationRanking ==
    (tourn_type = Elimination /\ pc = "done") =>
        LET fs == final_standings
            er(i) == full_ranking_data[fs[i].id].elim_round
        IN  /\ {fs[i].id : i \in 1..Len(fs)} = Range(participants)
            /\ \A i \in 1..Len(fs) : fs[i].score = LogScore(fs[i].id, BracketKind)
            /\ \A i, j \in 1..Len(fs) :
                  i < j => \/ er(i) > er(j)
                           \/ er(i) = er(j) /\ fs[i].score >= fs[j].score

C6_Witness ==
    /\ tourn_type = Elimination /\ pc = "done"
    /\ \E i, j \in 1..Len(final_standings) :
          /\ i < j
          /\ full_ranking_data[final_standings[i].id].elim_round
                = full_ranking_data[final_standings[j].id].elim_round
          /\ final_standings[i].score > final_standings[j].score
          /\ StrategyName(final_standings[i].id) > StrategyName(final_standings[j].id)

(***************************************************************************)
(* The group stage as the groups and the match log show it                 *)
(***************************************************************************)
\* the state in which the knockout bracket has just been seeded
GroupStageOver == pc = "ko_round" /\ round_num = 1

\* the size of the smallest group
SmallestGroup ==
    CHOOSE m \in {Len(groups[g]) : g \in 1..Len(groups)} :
        \A g \in 1..Len(groups) : m <= Len(groups[g])

Smaller(a, b) == IF a < b THEN a ELSE b

\* no member left out of the knockout scored more in its group than one let in
TopScorersQualify ==
    \A g \in 1..Len(groups) :
        \A a, b \in Range(groups[g]) :
            (a \in Range(qualifiers) /\ b \notin Range(qualifiers)) =>
                LogScore(a, GroupKind) >= LogScore(b, GroupKind)

(***************************************************************************)
(* C7: the groups of a Group Stage + Knockout tournament that passed       *)
(* validation partition the participants: every participant is in exactly  *)
(* one group, the group sizes differ by at most one, and every group has   *)
(* at least 2 members.                                                     *)
(***************************************************************************)
C7_GroupPartition ==
    (tourn_type = GroupKnockout /\ pc # "idle") =>
        /\ Len(groups) = num_groups
        /\ \A p \in Range(participants) :
              Cardinality({gk \in {<<g, k>> : g \in 1..Len(groups), k \in 1..Len(participants)} :
                              gk[2] <= Len(groups[gk[1]]) /\ groups[gk[1]][gk[2]] = p}) = 1
        /\ \A g \in 1..Len(groups) : Range(groups[g]) \subseteq Range(participants)
        /\ \A g, h \in 1..Len(groups) : Len(groups[g]) - Len(groups[h]) <= 1
        /\ \A g \in 1..Len(groups) : Len(groups[g]) >= 2

C7_Witness ==
    /\ tourn_type = GroupKnockout /\ pc = "group_match"
    /\ Len(groups) = 2
    /\ Len(groups[1]) = 3 /\ Len(groups[2]) = 2

(***************************************************************************)
(* C8: the qualifiers of a group are picked by descending in-group score,  *)
(* and among members of equal in-group score by display name in ascending  *)
(* order: a member does not qualify ahead of a member of its group with a  *)
(* higher score, or with the same score and an alphabetically earlier name.*)
(***************************************************************************)
C8_GroupTieByNameAscending ==
    GroupStageOver =>
        \A g \in 1..Len(groups) :
            \A a, b \in Range(groups[g]) :
                (b \in Range(qualifiers) /\ a \notin Range(qualifiers)) =>
                    /\ LogScore(a, GroupKind) <= LogScore(b, GroupKind)
                    /\ LogScore(a, GroupKind) = LogScore(b, GroupKind) =>
                          StrategyName(b) < StrategyName(a)

(***************************************************************************)
(* C9 as stated: the number of participants entering the knockout is       *)
(* groups x qualifiersPerGroup capped by the smallest group size, no group *)
(* contributes more qualifiers than the smallest group has members, and no *)
(* non-qualifier has a strictly higher in-group score than a qualifier of  *)
(* its group.                                                              *)
(***************************************************************************)
C9_QualifiersCappedBySmallestGroup ==
    GroupStageOver =>
        /\ Len(qualifiers) = num_groups * Smaller(num_qualifiers, SmallestGroup)
        /\ \A g \in 1..Len(groups) :
              Cardinality(Range(groups[g]) \cap Range(qualifiers)) <= SmallestGroup
        /\ TopScorersQualify

(***************************************************************************)
(* C9 as amended: every group contributes qualifiersPerGroup qualifiers,   *)
(* capped by its own size; the number of participants entering the         *)
(* knockout is the sum of these; and no non-qualifier has a strictly       *)
(* higher in-group score than a qualifier of its group.                    *)
(***************************************************************************)
C9_QualifiersCappedByOwnGroup ==
    GroupStageOver =>
        LET total[g \in 0..Len(groups)] ==
                IF g = 0 THEN 0
                ELSE total[g - 1] + Smaller(num_qualifiers, Len(groups[g]))
        IN  /\ Len(qualifiers) = total[Len(groups)]
            /\ Cardinality(Range(qualifiers)) = Len(qualifiers)
            /\ Range(qualifiers) \subseteq Range(participants)
            /\ \A g \in 1..Len(groups) :
                  Cardinality(Range(groups[g]) \cap Range(qualifiers))
                      = Smaller(num_qualifiers, Len(groups[g]))
            /\ TopScorersQualify

C9_Witness ==
    /\ GroupStageOver
    /\ \E g, h \in 1..Len(groups) :
          /\ Len(groups[g]) < num_qualifiers
          /\ Len(groups[h]) > Len(groups[g])
    /\ Len(qualifiers) = 5

(***************************************************************************)
(* C10: the standings of a Group Stage + Knockout tournament show the      *)
(* group stage only: every entry's score and games count are those of its  *)
(* group-stage matches, and the order is by descending group-stage score   *)
(* (equal scores in the order of first appearance in the group stage),     *)
(* whatever the knockout matches gave; the winner comes from the knockout  *)
(* and need not be the rank-1 entry.                                       *)
(***************************************************************************)
C10_StandingsFromGroupStage ==
    (tourn_type = GroupKnockout /\ pc = "done") =>
        LET fs == final_standings
        IN  /\ {fs[i].id : i \in 1..Len(fs)} = Range(participants)
            /\ \A i \in 1..Len(fs) :
                  /\ fs[i].score = LogScore(fs[i].id, GroupKind)
                  /\ fs[i].games = Cardinality(LogGames(fs[i].id, GroupKind))
            /\ \A i, j \in 1..Len(fs) :
                  i < j => \/ fs[i].score > fs[j].score
                           \/ /\ fs[i].score = fs[j].score
                              /\ FirstAppearance(fs[i].id) < FirstAppearance(fs[j].id)
            /\ winner_id = Advancer(all_matches_data[Len(all_matches_data)])
            /\ all_matches_data[Len(all_matches_data)].sim_type = "Tournament Knockout"

C10_Witness ==
    /\ tourn_type = GroupKnockout /\ pc = "done"
    /\ winner_id # final_standings[1].id
    /\ LogScore(winner_id, GroupKind) < final_standings[1].score
    /\ \E i \in 1..Len(final_standings) :
          LogScore(final_standings[i].id, BracketKind) > 0

(***************************************************************************)
(* C11: a request with fewer than 2 participants, or (Group Stage +        *)
(* Knockout) with fewer than 2 x groups participants or fewer than 2       *)
(* qualifiers in total, is rejected before any match: no game is run, the  *)
(* statistics, the match log, the standings and the winner are untouched,  *)
(* nothing of the tournament is set up, and the Run button is enabled      *)
(* again, so that a later valid request is accepted and starts.            *)
(***************************************************************************)
RequestInvalid ==
    \/ Cardinality(checked) < 2
    \/ /\ tourn_type = GroupKnockout
       /\ \/ Cardinality(checked) < 2 * groups_spin
          \/ qualifiers_spin * groups_spin < 2

RejectMessages ==
    {"Need >= 2 participants.", "Too few participants for groups.", "Need >= 2 total qualifiers."}

C11_ValidationRejects ==
    [][ /\ (pc = "idle" /\ RequestInvalid /\ checked' = checked
                /\ groups_spin' = groups_spin /\ qualifiers_spin' = qualifiers_spin) =>
              /\ pc' = "idle"
              /\ message' \in RejectMessages
              /\ PLAYER_STATS' = PLAYER_STATS
              /\ all_matches_data' = all_matches_data /\ all_matches_data = <<>>
              /\ final_standings' = <<>> /\ winner_id' = None
              /\ draws' = draws
              /\ UNCHANGED <<setup, totals, group_totals, matchups, match_i, bracket, group_vars>>
        /\ (pc = "idle" /\ ~RequestInvalid /\ checked' = checked
                /\ groups_spin' = groups_spin /\ qualifiers_spin' = qualifiers_spin) =>
              /\ pc' # "idle"
              /\ Range(participants') = checked
      ]_vars

C11_Witness ==
    /\ pc = "idle"
    /\ message \in RejectMessages
    /\ ~RequestInvalid

(***************************************************************************)
(* What the histories of a game say, independently of its running scores   *)
(***************************************************************************)
\* the sum over the recorded rounds of the payoff of player i
PayoffSum(history1, history2, i) ==
    LET sum[k \in 0..Len(history1)] ==
            IF k = 0 THEN 0 ELSE sum[k - 1] + PAYOFFS(history1[k], history2[k])[i]
    IN  sum[Len(history1)]

\* Game.get_round_data(round_index)
get_round_data(g, round_index) ==
    IF 0 <= round_index /\ round_index < Len(g.history1)
    THEN <<g.history1[round_index + 1], g.history2[round_index + 1],
           PAYOFFS(g.history1[round_index + 1], g.history2[round_index + 1])[1],
           PAYOFFS(g.history1[round_index + 1], g.history2[round_index + 1])[2]>>
    ELSE <<None, None, None, None>>

\* the move a function object returns when no random draw comes out TRUE
BaseMove(func, my_history, opponent_history, round_number, forgiveness_prob) ==
    (CHOOSE x \in Call(func, my_history, opponent_history, round_number, forgiveness_prob) :
        x.c = 0).m

(***************************************************************************)
(* C12: every play_round appends exactly one entry to each history, the    *)
(* two histories have the same length, the entries are the actual moves    *)
(* (the move of the strategy, changed once for every random draw that came *)
(* out TRUE), and score1 and score2 are the sums over all recorded rounds  *)
(* of the PAYOFFS entries of the recorded moves, which get_round_data      *)
(* gives back for the round just played.                                   *)
(***************************************************************************)
C12_RoundAtomic ==
    [][ (current_game # Nothing /\ current_game' # Nothing /\ current_game' # current_game) =>
           LET g == current_game
               h == current_game'
               n == Len(g.history1)
               b1 == BaseMove(g.strategy1_func, g.history1, g.history2, n, g.forgiveness_prob)
               b2 == BaseMove(g.strategy2_func, g.history2, g.history1, n, g.forgiveness_prob)
               changed == (IF h.history1[n + 1] # b1 THEN 1 ELSE 0)
                            + (IF h.history2[n + 1] # b2 THEN 1 ELSE 0)
               rd == get_round_data(h, n)
           IN  /\ Len(h.history1) = n + 1 /\ Len(h.history2) = n + 1
               /\ Len(g.history2) = n
               /\ SubSeq(h.history1, 1, n) = g.history1
               /\ SubSeq(h.history2, 1, n) = g.history2
               /\ changed <= draws' - draws
               /\ (draws' - draws - changed) % 2 = 0
               /\ h.score1 = PayoffSum(h.history1, h.history2, 1)
               /\ h.score2 = PayoffSum(h.history1, h.history2, 2)
               /\ rd = <<h.history1[n + 1], h.history2[n + 1],
                         h.score1 - g.score1, h.score2 - g.score2>>
      ]_vars

C12_Witness ==
    /\ current_game # Nothing
    /\ Len(current_game.history1) = 2
    /\ global_noise > 0 /\ global_forgiveness = 0 /\ draws = 1
    /\ current_game.strategy1_id = "cooperate" /\ current_game.strategy2_id = "cooperate"
    /\ current_game.score1 # current_game.score2

(***************************************************************************)
(* C13: a Game constructed for num_rounds rounds never holds more than     *)
(* num_rounds rounds, whoever applies the rounds: the single game, the     *)
(* sandbox game and the games of the tournament log.                       *)
(***************************************************************************)
C13_NeverMoreThanNumRounds ==
    /\ \A g \in {current_game, sandbox_game} \ {Nothing} :
          /\ Len(g.history1) <= g.num_rounds
          /\ Len(g.history2) <= g.num_rounds
    /\ \A k \in 1..Len(all_matches_data) : Len(all_matches_data[k].hist1) <= rounds_spin

(***************************************************************************)
(* The statistics as a total function                                      *)
(***************************************************************************)
\* the record of a strategy (all zero when it has none)
StatOf(stats, id) == IF id \in DOMAIN stats THEN stats[id] ELSE NewStat

\* the number of games counted over all strategies
TotalGames(stats) ==
    LET ids == BUILT_IN_STRATEGIES_META \cup CustomIds \cup {"manual_p1", "manual_p2"}
        sum[I \in SUBSET ids] ==
            IF I = {} THEN 0
            ELSE LET x == CHOOSE y \in I : TRUE
                 IN  StatOf(stats, x).games_played + sum[I \ {x}]
    IN  sum[ids]

\* every tournament match of the log has all its rounds
TournamentMatchesComplete ==
    \A k \in 1..Len(all_matches_data) :
        /\ Len(all_matches_data[k].hist1) = rounds_spin
        /\ Len(all_matches_data[k].hist2) = rounds_spin

(***************************************************************************)
(* C14 as stated: a match that has started runs to its configured number   *)
(* of rounds: no step ends a game that has played fewer rounds, and no     *)
(* match with fewer rounds than configured is in the single game log, the  *)
(* statistics or the tournament log.                                       *)
(***************************************************************************)
C14_NoMidMatchCancellation ==
    [][ /\ (current_game # Nothing /\ current_game' = Nothing) =>
              Len(current_game.history1) = current_game.num_rounds
        /\ \A k \in 1..Len(excel_log') : excel_log'[k].rounds = single_game_max_rounds'
        /\ TournamentMatchesComplete'
      ]_vars

(***************************************************************************)
(* C14 as amended: a tournament match always runs to its configured number *)
(* of rounds; a single game can be ended between two rounds by the Stop    *)
(* button: a game ended after at least one round is recorded in the        *)
(* statistics and the log with the rounds actually played (from 1 to the   *)
(* configured number), a game ended before its first round is not          *)
(* recorded, and a game that is not stopped plays all its rounds.          *)
(***************************************************************************)
C14_StoppedGameRecordedAsPlayed ==
    [][ /\ (current_game # Nothing /\ current_game' = Nothing) =>
              LET g == current_game
                  r == Len(g.history1)
              IN  /\ r <= g.num_rounds
                  /\ r < g.num_rounds => single_game_round_counter' < single_game_max_rounds'
                  /\ r >= 1 =>
                        /\ Len(excel_log') = Len(excel_log) + 1
                        /\ Last(excel_log').rounds = r
                        /\ Last(excel_log').history1 = g.history1
                        /\ Last(excel_log').score1 = g.score1
                        /\ Last(excel_log').score2 = g.score2
                        /\ TotalGames(PLAYER_STATS') = TotalGames(PLAYER_STATS) + 2
                        /\ StatOf(PLAYER_STATS', g.strategy1_id).games_played
                              > StatOf(PLAYER_STATS, g.strategy1_id).games_played
                  /\ r = 0 =>
                        /\ excel_log' = excel_log
                        /\ TotalGames(PLAYER_STATS') = TotalGames(PLAYER_STATS)
        /\ (current_game # Nothing /\ current_game' # Nothing) =>
              /\ excel_log' = excel_log
              /\ Len(current_game'.history1) >= Len(current_game.history1)
        /\ \A k \in 1..Len(excel_log') :
              /\ excel_log'[k].rounds >= 1
              /\ excel_log'[k].rounds <= single_game_max_rounds'
              /\ excel_log'[k].rounds = Len(excel_log'[k].history1)
        /\ TournamentMatchesComplete'
      ]_vars

C14_Witness ==
    /\ current_game = Nothing
    /\ excel_log # <<>>
    /\ Last(excel_log).rounds < single_game_max_rounds
    /\ TotalGames(PLAYER_STATS) >= 2
    /\ all_matches_data # <<>>

(***************************************************************************)
(* The rules of a custom strategy read as a priority list                  *)
(***************************************************************************)
\* the rules present whose condition holds, by priority 1, 2, 3
MatchingRules(rules, opponent_history, round_number) ==
    {i \in {1, 2, 3} :
        \/ /\ i = 1
           /\ "opp_last_move" \in DOMAIN rules /\ opponent_history # <<>>
           /\ Last(opponent_history) \in DOMAIN rules["opp_last_move"]
        \/ /\ i = 2
           /\ "opp_coop_lt" \in DOMAIN rules /\ opponent_history # <<>>
           /\ count(opponent_history, COOPERATE) * 100
                 < rules["opp_coop_lt"].value * Len(opponent_history)
        \/ /\ i = 3
           /\ "round_gt" \in DOMAIN rules /\ round_number > rules["round_gt"].value}

\* the move of rule i
RuleMove(rules, opponent_history, i) ==
    CASE i = 1 -> rules["opp_last_move"][Last(opponent_history)]
      [] i = 2 -> rules["opp_coop_lt"].move
      [] i = 3 -> rules["round_gt"].move

\* the move of the highest-priority matching rule, the default move when no
\* rule matches
FirstMatchMove(rules, opponent_history, round_number) ==
    LET M == MatchingRules(rules, opponent_history, round_number)
    IN  IF M = {} THEN default_move(rules)
        ELSE RuleMove(rules, opponent_history, CHOOSE i \in M : \A j \in M : i <= j)

\* the move a call chose before the forgiveness override
MoveBeforeOverride(x) == IF x.c = 1 THEN DEFECT ELSE x.m

(***************************************************************************)
(* C15: the move a custom strategy function chooses, before any            *)
(* forgiveness override, is the move of the highest-priority rule whose    *)
(* condition matches (opponent's last move with a target for it, else      *)
(* cooperation rate below the threshold, else round number above the       *)
(* threshold), and the default move only when no rule present matches.     *)
(***************************************************************************)
C15_FirstMatchWins ==
    cs_move # Nothing =>
        MoveBeforeOverride(cs_move)
            = FirstMatchMove(cs_call.rules, cs_call.opponent_history, cs_call.round_number)

(***************************************************************************)
(* C16: a Defect that is the default move (no rule matches) is returned    *)
(* whatever the forgiveness probability and the draw; a forgiveness        *)
(* override only ever replaces a Defect selected by a matching rule.       *)
(***************************************************************************)
C16_DefaultDefectNotForgiven ==
    cs_move # Nothing =>
        LET M == MatchingRules(cs_call.rules, cs_call.opponent_history, cs_call.round_number)
        IN  /\ (M = {} /\ default_move(cs_call.rules) = DEFECT) => cs_move = Mv(DEFECT, 0)
            /\ cs_move.c = 1 =>
                  /\ M # {}
                  /\ FirstMatchMove(cs_call.rules, cs_call.opponent_history,
                                    cs_call.round_number) = DEFECT
                  /\ cs_move.m = COOPERATE
                  /\ cs_call.forgiveness_prob > 0

C16_Witness ==
    /\ cs_move = Mv(DEFECT, 0)
    /\ cs_call.forgiveness_prob > 0
    /\ "default" \in DOMAIN cs_call.rules /\ cs_call.rules["default"] = DEFECT
    /\ DOMAIN cs_call.rules = {"default", "opp_last_move", "opp_coop_lt", "round_gt"}
    /\ MatchingRules(cs_call.rules, cs_call.opponent_history, cs_call.round_number) = {}
    /\ cs_call.opponent_history # <<>>

(***************************************************************************)
(* C17: no decision function is built from a rule set that has no default  *)
(* move, so none is ever called.                                           *)
(***************************************************************************)
C17_NoDefaultNoFunction ==
    (cs_call # Nothing /\ "default" \notin DOMAIN cs_call.rules) =>
        /\ cs_call.func = Nothing
        /\ cs_move = Nothing

(***************************************************************************)
(* What one recorded match does to the record of a strategy                *)
(***************************************************************************)
\* the record after one more game with the given scores
Recorded(stat, score, opp_score) ==
    [games_played |-> stat.games_played + 1,
     total_score |-> stat.total_score + score,
     wins |-> stat.wins + (IF score > opp_score THEN 1 ELSE 0),
     losses |-> stat.losses + (IF score < opp_score THEN 1 ELSE 0),
     draws |-> stat.draws + (IF score = opp_score THEN 1 ELSE 0)]

(***************************************************************************)
(* C18: recording a match between two distinct known strategies adds 1 to  *)
(* the games played of each and its own score to its total score, and adds *)
(* 1 to exactly one outcome counter of each: wins for the strictly higher  *)
(* scorer and losses for the lower one, or draws for both on equal scores; *)
(* the records of all other strategies are unchanged.                      *)
(***************************************************************************)
C18_MatchRecorded ==
    [][ Len(all_matches_data') = Len(all_matches_data) + 1 =>
           LET md == all_matches_data'[Len(all_matches_data')]
               a == md.p1_id
               b == md.p2_id
           IN  (a # b /\ a \in STRATEGIES /\ b \in STRATEGIES) =>
                  /\ DOMAIN PLAYER_STATS' = DOMAIN PLAYER_STATS \cup {a, b}
                  /\ PLAYER_STATS'[a] = Recorded(StatOf(PLAYER_STATS, a), md.score1, md.score2)
                  /\ PLAYER_STATS'[b] = Recorded(StatOf(PLAYER_STATS, b), md.score2, md.score1)
                  /\ \A x \in DOMAIN PLAYER_STATS \ {a, b} : PLAYER_STATS'[x] = PLAYER_STATS[x]
                  /\ LET da == PLAYER_STATS'[a]
                         db == PLAYER_STATS'[b]
                         oa == StatOf(PLAYER_STATS, a)
                         ob == StatOf(PLAYER_STATS, b)
                     IN  /\ (da.wins - oa.wins) + (da.losses - oa.losses) + (da.draws - oa.draws) = 1
                         /\ (db.wins - ob.wins) + (db.losses - ob.losses) + (db.draws - ob.draws) = 1
                         /\ da.wins - oa.wins = db.losses - ob.losses
                         /\ da.losses - oa.losses = db.wins - ob.wins
                         /\ da.draws - oa.draws = db.draws - ob.draws
      ]_vars

C18_Witness ==
    \E a, b \in DOMAIN PLAYER_STATS :
       /\ a # b
       /\ PLAYER_STATS[a].wins >= 1 /\ PLAYER_STATS[a].draws >= 1
       /\ PLAYER_STATS[b].losses >= 1 /\ PLAYER_STATS[b].games_played >= 2

(***************************************************************************)
(* Matches recorded while a player is missing from the registry            *)
(***************************************************************************)
\* an id update_player_stats skips
Skipped(id) == id \notin STRATEGIES \/ id \in {"manual_p1", "manual_p2"}

\* the step is a call update_player_stats(a, b, s1, s2) that left the record
\* of a skipped id alone and recorded the match for a known opponent
SkipsUnknown(a, b, s1, s2) ==
    /\ \A x \in {a, b} :
          Skipped(x) => /\ x \in DOMAIN PLAYER_STATS' <=> x \in DOMAIN PLAYER_STATS
                        /\ x \in DOMAIN PLAYER_STATS => PLAYER_STATS'[x] = PLAYER_STATS[x]
    /\ Skipped(a) /\ ~Skipped(b) =>
          /\ b \in DOMAIN PLAYER_STATS'
          /\ PLAYER_STATS'[b] = Recorded(StatOf(PLAYER_STATS, b), s2, s1)
    /\ Skipped(b) /\ ~Skipped(a) =>
          /\ a \in DOMAIN PLAYER_STATS'
          /\ PLAYER_STATS'[a] = Recorded(StatOf(PLAYER_STATS, a), s1, s2)
    /\ message' = message

\* the same for a call with a manual player of the sandbox on one side, on
\* the statistics of the current state
SkipsManual ==
    \A m \in {"manual_p1", "manual_p2"}, y \in STRATEGIES, s1, s2 \in 0..1 :
       LET first == update_player_stats(PLAYER_STATS, m, y, s1, s2)
           second == update_player_stats(PLAYER_STATS, y, m, s2, s1)
       IN  /\ first = second
           /\ m \notin DOMAIN first
           /\ DOMAIN first = DOMAIN PLAYER_STATS \cup {y}
           /\ first[y] = Recorded(StatOf(PLAYER_STATS, y), s2, s1)
           /\ \A x \in DOMAIN PLAYER_STATS \ {y} : first[x] = PLAYER_STATS[x]

(***************************************************************************)
(* C19: when update_player_stats is called with an id that is not in the   *)
(* registry, or with a manual_ id of the sandbox, that id is skipped       *)
(* without an error: no record is created or changed for it, and the other *)
(* participant of the match, if known, is updated as usual.                *)
(***************************************************************************)
C19_UnknownIdSkipped ==
    [][ /\ SkipsManual
        /\ Len(all_matches_data') = Len(all_matches_data) + 1 =>
              LET md == all_matches_data'[Len(all_matches_data')]
              IN  SkipsUnknown(md.p1_id, md.p2_id, md.score1, md.score2)
        /\ Len(excel_log') = Len(excel_log) + 1 =>
              LET row == excel_log'[Len(excel_log')]
              IN  SkipsUnknown(row.p1_id, row.p2_id, row.score1, row.score2)
      ]_vars

\* a tournament match and a single game with "Zed", recorded while "Zed" was
\* missing: its opponents have their records, "Zed" has none
C19_Witness ==
    /\ "custom_zed" \notin DOMAIN PLAYER_STATS
    /\ \E i \in 1..Len(all_matches_data) :
          /\ all_matches_data[i].p2_id = "custom_zed"
          /\ all_matches_data[i].p1_id \in DOMAIN PLAYER_STATS
    /\ \E i \in 1..Len(excel_log) :
          /\ excel_log[i].p1_id = "custom_zed"
          /\ excel_log[i].p2_id = "tit_for_tat"
          /\ PLAYER_STATS["tit_for_tat"].games_played >= 2

AllCooperate(history) == \A i \in 1..Len(history) : history[i] = COOPERATE

\* the tournament match appended by the step was played in full, with
\* Always Cooperate for a player missing from the registry, and has its
\* result in the totals of the tournament
PlayedWithFallback(md) ==
    /\ Len(md.hist1) = rounds_spin /\ Len(md.hist2) = rounds_spin
    /\ md.p1_id \notin STRATEGIES /\ global_noise = 0 => AllCooperate(md.hist1)
    /\ md.p2_id \notin STRATEGIES /\ global_noise = 0 => AllCooperate(md.hist2)
    /\ md.score1 = PayoffSum(md.hist1, md.hist2, 1)
    /\ md.score2 = PayoffSum(md.hist1, md.hist2, 2)
    /\ \E i \in 1..Len(tournament_scores') : tournament_scores'[i].id = md.p1_id
    /\ \E i \in 1..Len(tournament_scores') : tournament_scores'[i].id = md.p2_id
    /\ message' = message
    /\ pc' \in {"rr_match", "done"}
    /\ pc' = "done" =>
          /\ \E i \in 1..Len(final_standings') : final_standings'[i].id = md.p1_id
          /\ \E i \in 1..Len(final_standings') : final_standings'[i].id = md.p2_id

\* the statistics recorded so far are kept
StatsKept ==
    \A x \in DOMAIN PLAYER_STATS :
       /\ x \in DOMAIN PLAYER_STATS'
       /\ PLAYER_STATS'[x].games_played >= PLAYER_STATS[x].games_played
       /\ PLAYER_STATS'[x].total_score >= PLAYER_STATS[x].total_score
       /\ PLAYER_STATS'[x].wins >= PLAYER_STATS[x].wins
       /\ PLAYER_STATS'[x].losses >= PLAYER_STATS[x].losses
       /\ PLAYER_STATS'[x].draws >= PLAYER_STATS[x].draws

InRange(p) == 0 <= p /\ p <= One

(***************************************************************************)
(* C21: a match engine call with a noise or forgiveness probability        *)
(* outside [0, 1] is rejected with a ValidationError and plays no round.   *)
(***************************************************************************)
C21_OutOfRangeRejected ==
    (~InRange(engine_args.noise_prob) \/ ~InRange(engine_args.forgiveness_prob))
        => engine_game = Nothing

(***************************************************************************)
(* What runs while run_tournament is between its start and its end         *)
(***************************************************************************)
\* run_tournament has started and stands at one of its processEvents calls
TournamentInProgress == pc \notin {"idle", "disabled", "done"}

(***************************************************************************)
(* C22: match and tournament operations never interleave: while a          *)
(* tournament is in progress no round of another match is executed         *)
(* (neither a single game timer step nor a sandbox round), no second       *)
(* tournament is started, and no statistics update of another operation    *)
(* happens between two matches of the tournament.                          *)
(***************************************************************************)
C22_NoInterleaving ==
    [][ TournamentInProgress =>
           /\ current_game' = current_game
           /\ sandbox_game' = sandbox_game
           /\ pc' # "idle" /\ participants' = participants
           /\ PLAYER_STATS' # PLAYER_STATS =>
                  Len(all_matches_data') = Len(all_matches_data) + 1
      ]_vars

(***************************************************************************)
(* Scenario C                                                              *)
(***************************************************************************)
\* a finished Round Robin among Always Cooperate, Always Defect and Tit for
\* Tat, 10 rounds per game, no noise, no forgiveness
ScenarioC ==
    /\ pc = "done"
    /\ tourn_type = RoundRobin
    /\ Range(participants) = {"cooperate", "defect", "tit_for_tat"}
    /\ rounds_spin = 10
    /\ global_noise = 0 /\ global_forgiveness = 0

(***************************************************************************)
(* C23: Scenario C plays exactly 3 matches and ranks Always Defect first   *)
(* in the standings; Tit for Tat against Always Defect gives (C, D) in the *)
(* first round and (D, D) in every later round.                            *)
(***************************************************************************)
C23_ScenarioC ==
    ScenarioC =>
       /\ Len(all_matches_data) = 3
       /\ final_standings[1].id = "defect"
       /\ final_standings[1].rank = 1
       /\ \A i \in 2..Len(final_standings) :
             final_standings[i].score < final_standings[1].score
       /\ \E i \in 1..3 :
             LET md == all_matches_data[i]
                 tft == IF md.p1_id = "tit_for_tat" THEN md.hist1 ELSE md.hist2
                 alld == IF md.p1_id = "tit_for_tat" THEN md.hist2 ELSE md.hist1
             IN  /\ {md.p1_id, md.p2_id} = {"tit_for_tat", "defect"}
                 /\ Len(tft) = 10 /\ Len(alld) = 10
                 /\ tft[1] = COOPERATE
                 /\ \A r \in 2..10 : tft[r] = DEFECT
                 /\ \A r \in 1..10 : alld[r] = DEFECT

\* Scenario C finished: 64 points for Always Defect, 39 for Tit for Tat, 30
\* for Always Cooperate
C23_Witness ==
    /\ ScenarioC
    /\ Len(final_standings) = 3
    /\ final_standings[1].score = 64
    /\ final_standings[2].id = "tit_for_tat" /\ final_standings[2].score = 39
    /\ final_standings[3].id = "cooperate" /\ final_standings[3].score = 30

(***************************************************************************)
(* The moves the strategies of a Game intend in its next round             *)
(***************************************************************************)
\* the calls play_round makes for the next round of the game: the moves
\* player 1 and player 2 may intend
Intended1(g) ==
    Call(g.strategy1_func, g.history1, g.history2, Len(g.history1), g.forgiveness_prob)
Intended2(g) ==
    Call(g.strategy2_func, g.history2, g.history1, Len(g.history1), g.forgiveness_prob)

\* "Repeats last move if payoff was good (R/T), else switches."
WinStayLoseShift(my_history, opponent_history) ==
    LET last_my_move == Last(my_history)
        last_payoff == PAYOFFS(last_my_move, Last(opponent_history))[1]
    IN  IF last_payoff \in {R, T} THEN last_my_move
        ELSE IF last_my_move = COOPERATE THEN DEFECT ELSE COOPERATE

(***************************************************************************)
(* C24: Pavlov, after round 0 and with forgiveness 0, repeats its own last *)
(* move if the payoff it earned in the last round was Reward or            *)
(* Temptation, and otherwise (Punishment or Sucker) switches to the        *)
(* opposite move.                                                          *)
(***************************************************************************)
C24_PavlovWinStayLoseShift ==
    (engine_game # Nothing /\ engine_game.forgiveness_prob = 0
        /\ engine_game.history1 # <<>>) =>
       /\ engine_game.strategy1_id = "pavlov" =>
             Intended1(engine_game)
                = {Mv(WinStayLoseShift(engine_game.history1, engine_game.history2), 0)}
       /\ engine_game.strategy2_id = "pavlov" =>
             Intended2(engine_game)
                = {Mv(WinStayLoseShift(engine_game.history2, engine_game.history1), 0)}

(***************************************************************************)
(* Grudger in a game without forgiveness                                   *)
(***************************************************************************)
\* the opponent of the given side has a Defect in its recorded history
Grudging(g, side) ==
    /\ g # Nothing
    /\ Contains(IF side = 1 THEN g.history2 ELSE g.history1, DEFECT)

\* the move a grudger on the given side intends in the next round of the
\* game: Defect when grudging, Cooperate otherwise
GrudgerIntends(g, side) ==
    (g # Nothing /\ g.forgiveness_prob = 0
        /\ (IF side = 1 THEN g.strategy1_id ELSE g.strategy2_id) = "grudger") =>
       (IF side = 1 THEN Intended1(g) ELSE Intended2(g))
          = {Mv(IF Grudging(g, side) THEN DEFECT ELSE COOPERATE, 0)}

(***************************************************************************)
(* C25: Grudger in a match with forgiveness 0 (any noise) intends          *)
(* Cooperate in every round in which the opponent's recorded history       *)
(* contains no Defect, and from the first round after the opponent's       *)
(* recorded history contains a Defect it intends Defect in every later     *)
(* round of that match.                                                    *)
(***************************************************************************)
C25_GrudgerNeverForgets ==
    [][ \A side \in {1, 2} :
           /\ GrudgerIntends(engine_game, side)
           /\ GrudgerIntends(engine_game', side)
           /\ Grudging(engine_game, side) => Grudging(engine_game', side)
      ]_vars

\* a grudger whose opponent defected once, by noise, in the first round and
\* cooperated afterwards: it played Defect in the two later rounds
C25_Witness ==
    /\ engine_game # Nothing
    /\ engine_game.strategy1_id = "grudger" /\ engine_game.strategy2_id = "cooperate"
    /\ engine_game.forgiveness_prob = 0 /\ engine_game.noise_prob = slider_max
    /\ engine_game.history2 = <<DEFECT, COOPERATE, COOPERATE>>
    /\ engine_game.history1 = <<COOPERATE, DEFECT, DEFECT>>

(***************************************************************************)
(* The standings of a finished tournament                                  *)
(***************************************************************************)
\* the matches the standings count: the group stage for Group Stage +
\* Knockout, every match of the tournament otherwise
RankingScope ==
    IF tourn_type = GroupKnockout THEN GroupKind ELSE RRKind \cup BracketKind

(***************************************************************************)
(* C26: for each of the three formats and every input that passes          *)
(* validation, the final standings contain every participant exactly once  *)
(* and nothing else, with ranks 1..n in list order, and the games count of *)
(* each entry is the number of matches that participant played in the      *)
(* ranking scope.                                                          *)
(***************************************************************************)
C26_StandingsComplete ==
    pc = "done" =>
        LET fs == final_standings
        IN  /\ Len(fs) = Len(participants)
            /\ {fs[i].id : i \in 1..Len(fs)} = Range(participants)
            /\ \A i, j \in 1..Len(fs) : fs[i].id = fs[j].id => i = j
            /\ \A i \in 1..Len(fs) :
                  /\ fs[i].rank = i
                  /\ fs[i].games = Cardinality(LogGames(fs[i].id, RankingScope))

\* a finished Group Stage + Knockout with an entry whose games count leaves
\* out the knockout matches it played
C26_Witness ==
    /\ pc = "done"
    /\ tourn_type = GroupKnockout
    /\ Len(final_standings) >= 4
    /\ \E i \in 1..Len(final_standings) :
          final_standings[i].games
             < Cardinality(LogGames(final_standings[i].id, GroupKind \cup BracketKind))

(***************************************************************************)
(* The end of a single game                                                *)
(***************************************************************************)
\* the step ends the single game that was running: it is cleared
SingleGameEnds == current_game # Nothing /\ current_game' = Nothing

\* the step starts a single game and a Stop click ends it before its first
\* round, inside the handler of the Run button
SingleGameStoppedAtStart ==
    /\ current_game = Nothing /\ current_game' = Nothing
    /\ single_game_timer' /\ single_game_round_counter' = 0
    /\ single_game_max_rounds' = sg_rounds_spin
    /\ ~single_game_timer \/ single_game_round_counter # 0
          \/ single_game_max_rounds # sg_rounds_spin

\* the step calls update_player_stats for the single game that was running
\* and logs it
SingleGameRecorded ==
    /\ current_game # Nothing
    /\ excel_log' = Append(excel_log, single_game_row(current_game))
    /\ PLAYER_STATS' = update_player_stats(PLAYER_STATS, current_game.strategy1_id,
                                           current_game.strategy2_id,
                                           current_game.score1, current_game.score2)

(***************************************************************************)
(* C27: for every interleaving of Run clicks, Stop clicks and timer ticks, *)
(* each started single game causes at most one update_player_stats call,   *)
(* and exactly one if the game ended (by reaching its round count or by    *)
(* Stop) after at least one round; after it ends current_game is cleared,  *)
(* the timer is stopped and no further round of it is played.              *)
(***************************************************************************)
C27_SingleGameRecordedOnce ==
    [][ \* a record is made only for the game that ends in the step
        /\ excel_log' # excel_log => SingleGameEnds /\ SingleGameRecorded
        \* a game that ends is recorded if and only if it played a round
        /\ SingleGameEnds =>
              /\ Len(current_game.history1) > 0 => SingleGameRecorded
              /\ Len(current_game.history1) = 0 =>
                    excel_log' = excel_log /\ PLAYER_STATS' = PLAYER_STATS
              /\ ~single_game_timer'
        \* a game that goes on keeps its rounds and plays at most one more
        /\ (current_game # Nothing /\ current_game' # Nothing) =>
              /\ excel_log' = excel_log
              /\ \/ current_game' = current_game
                 \/ /\ Len(current_game'.history1) = Len(current_game.history1) + 1
                    /\ SubSeq(current_game'.history1, 1, Len(current_game.history1))
                          = current_game.history1
                    /\ Len(current_game'.history1) <= current_game.num_rounds
        \* a game stopped inside the handler that started it has ended too
        /\ SingleGameStoppedAtStart => ~single_game_timer'
      ]_vars

(***************************************************************************)
(* Byes in consecutive bracket rounds                                      *)
(***************************************************************************)
\* run_tournament stands at the head of a bracket round after the first;
\* matchups still holds the pairs of the round before
LaterRoundHead == pc \in {"elim_round", "ko_round"} /\ round_num > 1

\* the participants of the round that played no match of the round before
HadBye ==
    Range(current_round_participants)
        \ UNION {{matchups[k][1], matchups[k][2]} : k \in 1..Len(matchups)}

(***************************************************************************)
(* C28: in Elimination and Knockout the participant that received the bye  *)
(* in a round is at position 0 of the next round's ordering, so whenever   *)
(* the next round again has an odd number of participants the same         *)
(* participant receives the bye again; with 5 participants the first       *)
(* participant reaches the final without having played any match.          *)
(***************************************************************************)
C28_RepeatedByes ==
    [][ /\ (LaterRoundHead /\ Len(current_round_participants) = Len(matchups) + 1) =>
              /\ HadBye = {current_round_participants[1]}
              /\ Len(current_round_participants) % 2 = 1 =>
                    /\ next_round' = <<current_round_participants[1]>>
                    /\ \A k \in 1..Len(matchups') :
                          current_round_participants[1]
                              \notin {matchups'[k][1], matchups'[k][2]}
        /\ (LaterRoundHead /\ Len(current_round_participants) = Len(matchups)) =>
              HadBye = {}
        /\ (pc' = "done" /\ tourn_type = Elimination /\ Len(participants) = 5) =>
              /\ LogGames(participants[1], BracketKind)' = {Len(all_matches_data')}
              /\ Len(all_matches_data') = 4
      ]_vars

\* a finished Elimination of 5 participants: the first of them had the bye
\* of the first two rounds and played the final only
C28_Witness ==
    /\ pc = "done"
    /\ tourn_type = Elimination
    /\ Len(participants) = 5
    /\ round_num = 4
    /\ LogGames(participants[1], BracketKind) = {4}
    /\ final_standings[2].id = participants[1] /\ final_standings[2].games = 1

(***************************************************************************)
(* C29: when both sides of a recorded single game are the same registered  *)
(* strategy, the record of that strategy (all zero when it had none) gets  *)
(* 2 more games played and score1 + score2 more total score, and either    *)
(* one more win and one more loss (the scores differ) or two more draws    *)
(* (the scores are equal); no other record changes.                        *)
(***************************************************************************)
\* the last row of the match log is a game of a registered strategy with itself
SelfPlayRow(log) ==
    /\ log # <<>>
    /\ Last(log).p1_id = Last(log).p2_id
    /\ Last(log).p1_id \in STRATEGIES

C29_SelfPlayAccounting ==
    [][ (Len(excel_log') = Len(excel_log) + 1 /\ SelfPlayRow(excel_log')) =>
           LET row == Last(excel_log')
               a == row.p1_id
               old == IF a \in DOMAIN PLAYER_STATS THEN PLAYER_STATS[a]
                      ELSE [wins |-> 0, losses |-> 0, draws |-> 0,
                            total_score |-> 0, games_played |-> 0]
               new == PLAYER_STATS'[a]
           IN  /\ DOMAIN PLAYER_STATS' = DOMAIN PLAYER_STATS \cup {a}
               /\ new.games_played = old.games_played + 2
               /\ new.total_score = old.total_score + row.score1 + row.score2
               /\ row.score1 # row.score2 =>
                     /\ new.wins = old.wins + 1
                     /\ new.losses = old.losses + 1
                     /\ new.draws = old.draws
               /\ row.score1 = row.score2 =>
                     /\ new.draws = old.draws + 2
                     /\ new.wins = old.wins
                     /\ new.losses = old.losses
               /\ \A x \in DOMAIN PLAYER_STATS \ {a} : PLAYER_STATS'[x] = PLAYER_STATS[x]
      ]_vars

\* a recorded game of a strategy with itself that noise decided: the one
\* record has a win and a loss from it
C29_Witness ==
    /\ SelfPlayRow(excel_log)
    /\ Last(excel_log).score1 # Last(excel_log).score2
    /\ LET st == PLAYER_STATS[Last(excel_log).p1_id]
       IN  st.games_played = 2 /\ st.wins = 1 /\ st.losses = 1 /\ st.draws = 0

(***************************************************************************)
(* The matches update_player_stats has been called for                     *)
(***************************************************************************)
\* the recorded matches, as <<p1_id, p2_id, rounds played>>: the single
\* games, then the tournament matches
RecordedMatches ==
    [k \in 1..Len(excel_log) |->
        <<excel_log[k].p1_id, excel_log[k].p2_id, excel_log[k].rounds>>]
    \o [k \in 1..Len(all_matches_data) |->
        <<all_matches_data[k].p1_id, all_matches_data[k].p2_id, Len(all_matches_data[k].hist1)>>]

\* the rounds of the first k recorded matches the strategy took part in
RECURSIVE RoundsPlayed(_, _, _)
RoundsPlayed(ms, id, k) ==
    IF k = 0 THEN 0
    ELSE RoundsPlayed(ms, id, k - 1)
           + (IF id \in {ms[k][1], ms[k][2]} THEN ms[k][3] ELSE 0)

\* the same, a round counted once for each side the strategy played: the
\* number of payoffs update_player_stats added to its total_score
RECURSIVE SidesPlayed(_, _, _)
SidesPlayed(ms, id, k) ==
    IF k = 0 THEN 0
    ELSE SidesPlayed(ms, id, k - 1)
           + (IF id = ms[k][1] THEN ms[k][3] ELSE 0)
           + (IF id = ms[k][2] THEN ms[k][3] ELSE 0)

\* the counters of a record add up and none is negative
CountersConsistent(st) ==
    /\ st.wins + st.losses + st.draws = st.games_played
    /\ st.wins >= 0 /\ st.losses >= 0 /\ st.draws >= 0
    /\ st.games_played >= 0 /\ st.total_score >= 0

\* no record is removed and no counter of a record decreases in the step
CountersGrow ==
    \A x \in DOMAIN PLAYER_STATS :
        /\ x \in DOMAIN PLAYER_STATS'
        /\ PLAYER_STATS'[x].wins >= PLAYER_STATS[x].wins
        /\ PLAYER_STATS'[x].losses >= PLAYER_STATS[x].losses
        /\ PLAYER_STATS'[x].draws >= PLAYER_STATS[x].draws
        /\ PLAYER_STATS'[x].games_played >= PLAYER_STATS[x].games_played
        /\ PLAYER_STATS'[x].total_score >= PLAYER_STATS[x].total_score

(***************************************************************************)
(* C30 as stated: from empty statistics, after any sequence of recorded    *)
(* matches, every record has wins + losses + draws = games_played, no      *)
(* negative counter, no counter ever decreases, and its total_score is at  *)
(* most 5 times the rounds of the matches the strategy played.             *)
(***************************************************************************)
C30_StatisticsInvariant ==
    /\ [](\A x \in DOMAIN PLAYER_STATS :
             /\ CountersConsistent(PLAYER_STATS[x])
             /\ PLAYER_STATS[x].total_score
                  <= T * RoundsPlayed(RecordedMatches, x, Len(RecordedMatches)))
    /\ [][CountersGrow]_vars

(***************************************************************************)
(* C30 amended: the same, with the total_score at most 5 times the rounds  *)
(* counted once for each side the strategy played, so twice for the rounds *)
(* of a game against itself.                                               *)
(***************************************************************************)
C30_StatisticsInvariantPerSide ==
    /\ [](\A x \in DOMAIN PLAYER_STATS :
             /\ CountersConsistent(PLAYER_STATS[x])
             /\ PLAYER_STATS[x].total_score
                  <= T * SidesPlayed(RecordedMatches, x, Len(RecordedMatches)))
    /\ [][CountersGrow]_vars

\* a recorded game of a strategy against itself after which its total score
\* is above 5 times the rounds it played, and within 5 times the sides
C30_Witness ==
    /\ SelfPlayRow(excel_log)
    /\ LET x == Last(excel_log).p1_id
       IN  /\ PLAYER_STATS[x].games_played = 2
           /\ PLAYER_STATS[x].total_score
                > T * RoundsPlayed(RecordedMatches, x, Len(RecordedMatches))
           /\ PLAYER_STATS[x].total_score
                <= T * SidesPlayed(RecordedMatches, x, Len(RecordedMatches))

====
